---- MODULE Spec2Model ----
(***************************************************************************)
(* Route selection manager, area filter and interactive stop popups of the *)
(* transit map (src/src/lib/routeSelectionManager.ts,                      *)
(* src/src/lib/resolveAreaRouteKeys.ts, src/src/hooks/useAppState.ts,      *)
(* src/src/lib/attachInteractivePopup.ts).                                 *)
(*                                                                         *)
(* The browser runs one event loop.  A task (user event, network           *)
(* completion, animation frame, timer) runs to completion and the          *)
(* continuations it made runnable (microtasks) run before the next task.   *)
(* Every await of the code is a step boundary of the model: `calls' holds  *)
(* the suspended setRouteSelectionInternal calls, and a task is enabled    *)
(* only when no continuation is runnable (NoMicrotask).                    *)
(***************************************************************************)
EXTENDS Integers, Sequences, FiniteSets, TLC

\* ---------------------------------------------------------------- bounds
MaxFetches == 2       \* geometry fetches issued in one behaviour
MaxBatchFetches == 2  \* the same, where three routes are selected in batches
MaxBatchCalls == 2
MaxCalls == 3         \* suspended setRouteSelectionInternal calls
MaxActivations == 3   \* cap of previewActivationSequence
MaxTokens == 2        \* cap of a popup's popupRequestToken
MaxConcurrency == 2   \* largest concurrency option a batch is given
MaxHoverCalls == 2
MaxHoverActivations == 3
MaxHoverTokens == 1
MaxVariants == 3      \* stop variants in a sample handed to clusterStopVariants
MaxPolls == 2         \* live vehicle requests sent in one behaviour
MaxHour == 49         \* largest hour field of a sample raw time
MaxTimes == 2         \* departures in a sample of day schedules
MaxRouteKeys == 2     \* entries of the routeKeys array of a request
MaxScheduleFetches == 2  \* schedule fetches issued for one route
MaxScheduleCallers == 2  \* callers awaiting one schedule load
MaxAreaFetches == 2   \* geometry fetches after which no further area filter is applied
MaxVehiclePolls == 3  \* live vehicle requests sent while the markers are followed
MaxStatusPolls == 2   \* live vehicle requests sent while the source statuses are followed
MaxPanels == 3        \* panels of a sample popup
MaxProgressBits == 1  \* animation progress takes the values p / 2^MaxProgressBits

NoRoute == 0          \* null route key
NoDir == "none"       \* null direction key
DirKeys == {"d0", "d1"}

VARIABLES
  routeStateByKey,        \* key -> [selected, layer, routeData, loadPromise]
  selectedRouteKeys,      \* insertion-ordered Set of keys
  mapLayers,              \* <<key, layer id>> of the route layer groups on the map
  shapeFilter,            \* key -> direction whose shapes are the only ones shown (NoDir: all)
  layerGroupsBuilt,       \* key -> number of layer groups buildRouteLayer made
  fetchCount,             \* key -> number of geometry fetches issued
  fetches,                \* geometry fetches in flight
  scheduleStateByKey,     \* key -> [scheduleFile, scheduleData, scheduleLoadPromise, ...]
  scheduleFetches,        \* schedule fetches in flight
  calls,                  \* suspended setRouteSelectionInternal calls
  batch,                  \* the running setRouteKeysSelected call
  statusText,             \* last text handed to onStatusUpdate
  previewHoverCountsByRouteKey,
  previewActivationOrderByRouteKey,
  previewDirectionByRouteKey,
  activePreviewRouteKey,
  previewActivationSequence,
  stopClusterRebuildFrame,
  animationFramesRequested, \* rebuild callbacks handed to requestAnimationFrame, not yet run
  areaSelectionInProgress,
  areaWork,               \* position of applyAreaFilter / clearAreaFilter's doWork
  stopClusterLayers,      \* site -> the cluster marker there and its popup
  hoverCapable,           \* window.matchMedia(hoverPointerQuery).matches
  liveSelectedRouteKeys,  \* selectedRouteKeys of the live vehicle layer manager
  selectedRouteKeySignature,
  pollTimer,              \* TRUE when pollTimer holds an interval handle
  pollIntervals,          \* intervals set and not cleared
  inFlightController,     \* id of the AbortController held, or NoController
  destroyed,
  layersByVehicleId,      \* vehicle id -> [object, vehicle, marker, animationFrame, from, to]
  vehicleMarkersCreated,  \* markers made by createVehicleLayer; the last one's number
  sourceWarnings,         \* agency -> lines console.warn wrote for that source (337)
  vehicleAnimationFrames, \* markers whose animation step is handed to requestAnimationFrame
  sourceStatusSignatureByAgency,
  polls,                  \* loadLiveVehicles calls not yet settled
  pollsMade,              \* AbortControllers created
  layerGroupOnMap,        \* the live layer group is on the map
  lastPoll,               \* what the last settled request did: "applied", "stale", ...
  sample,                 \* arguments and result of a function applied to sample inputs
  backend                 \* one request to the live-vehicles endpoint and its answer

mgrVars == <<routeStateByKey, selectedRouteKeys, mapLayers, shapeFilter,
             scheduleStateByKey, scheduleFetches,
             layerGroupsBuilt, fetchCount, fetches, calls, batch, statusText,
             previewHoverCountsByRouteKey, previewActivationOrderByRouteKey,
             previewDirectionByRouteKey, activePreviewRouteKey,
             previewActivationSequence, stopClusterRebuildFrame,
             animationFramesRequested>>
areaVars == <<areaSelectionInProgress, areaWork>>
popupVars == <<stopClusterLayers, hoverCapable>>
liveVars == <<liveSelectedRouteKeys, selectedRouteKeySignature, pollTimer, pollIntervals,
              inFlightController, destroyed, layersByVehicleId,
              sourceStatusSignatureByAgency, polls, pollsMade, layerGroupOnMap, lastPoll,
              vehicleMarkersCreated, vehicleAnimationFrames, sourceWarnings>>

RouteKeys == DOMAIN routeStateByKey

\* ------------------------------------------------------- small helpers
Range(seq) == {seq[i] : i \in DOMAIN seq}

RemoveAt(seq, i) == [j \in 1..(Len(seq) - 1) |-> IF j < i THEN seq[j] ELSE seq[j + 1]]

\* Set.prototype.add / delete on an insertion-ordered Set
SetAdd(seq, k) == IF k \in Range(seq) THEN seq ELSE Append(seq, k)

SetDelete(seq, k) == SelectSeq(seq, LAMBDA x : x # k)

Min2(a, b) == IF a < b THEN a ELSE b

\* the % of the source: the remainder has the sign of the dividend
JsRem(a, n) == IF a >= 0 THEN a % n ELSE -((-a) % n)

\* ascending sequence of a finite set of integers
RECURSIVE SortedSeq(_)
SortedSeq(S) ==
  IF S = {} THEN <<>>
  ELSE LET m == CHOOSE x \in S : \A y \in S : x <= y
       IN <<m>> \o SortedSeq(S \ {m})

\* ------------------------------------------------- the manager's state
\* The handlers are sequences of calls on one shared state; each function of
\* the source is an operator from that state to the state it leaves.
St ==
  [rs |-> routeStateByKey, sel |-> selectedRouteKeys, map |-> mapLayers,
   shapes |-> shapeFilter, built |-> layerGroupsBuilt, fc |-> fetchCount,
   fetches |-> fetches, calls |-> calls, batch |-> batch, status |-> statusText,
   hover |-> previewHoverCountsByRouteKey, order |-> previewActivationOrderByRouteKey,
   dir |-> previewDirectionByRouteKey, active |-> activePreviewRouteKey,
   seq |-> previewActivationSequence, frame |-> stopClusterRebuildFrame,
   frames |-> animationFramesRequested,
   sched |-> scheduleStateByKey, sfetches |-> scheduleFetches,
   areaIn |-> areaSelectionInProgress, area |-> areaWork]

CommitManager(s) ==
  /\ routeStateByKey' = s.rs
  /\ selectedRouteKeys' = s.sel
  /\ mapLayers' = s.map
  /\ shapeFilter' = s.shapes
  /\ layerGroupsBuilt' = s.built
  /\ fetchCount' = s.fc
  /\ fetches' = s.fetches
  /\ calls' = s.calls
  /\ batch' = s.batch
  /\ statusText' = s.status
  /\ previewHoverCountsByRouteKey' = s.hover
  /\ previewActivationOrderByRouteKey' = s.order
  /\ previewDirectionByRouteKey' = s.dir
  /\ activePreviewRouteKey' = s.active
  /\ previewActivationSequence' = s.seq
  /\ stopClusterRebuildFrame' = s.frame
  /\ animationFramesRequested' = s.frames
  /\ scheduleStateByKey' = s.sched
  /\ scheduleFetches' = s.sfetches
  /\ areaSelectionInProgress' = s.areaIn
  /\ areaWork' = s.area

Commit(s) == CommitManager(s) /\ UNCHANGED <<liveVars, sample, backend>>

IdleBatch == [queue |-> <<>>, selected |-> FALSE, owner |-> "none", refresh |-> FALSE, concurrency |-> 0]

\* ------------------------------------------- layer visibility (371-430)
setLayerVisibility(s, k, visible) ==
  LET l == s.rs[k].layer IN
  IF l = 0 THEN s
  ELSE IF visible THEN [s EXCEPT !.map = @ \cup {<<k, l>>}]
  ELSE [s EXCEPT !.map = @ \ {<<k, l>>}]

\* shouldShowSelectedRoute without the preview test of lines 385-386
shouldShowSelectedRoute_IgnorePreview(s, k) ==
  ~(~s.rs[k].selected \/ s.rs[k].layer = 0)

shouldShowSelectedRoute(s, k) ==
  IF ~s.rs[k].selected \/ s.rs[k].layer = 0 THEN FALSE
  ELSE IF s.active = NoRoute THEN TRUE
  ELSE k = s.active

syncRouteShapeVisibility(s, k, activeDirectionKey) ==
  IF s.rs[k].layer = 0 THEN s
  ELSE [s EXCEPT !.shapes[k] = activeDirectionKey]

syncSelectedRouteLayer(s, k) ==
  LET showRoute == shouldShowSelectedRoute(s, k)
      activeDirectionKey == IF showRoute /\ s.active = k THEN s.dir[k] ELSE NoDir
  IN setLayerVisibility(syncRouteShapeVisibility(s, k, activeDirectionKey), k, showRoute)

RECURSIVE syncEach(_, _)
syncEach(s, keys) ==
  IF keys = <<>> THEN s
  ELSE syncEach(syncSelectedRouteLayer(s, Head(keys)), Tail(keys))

syncAllSelectedRouteLayers(s) == syncEach(s, s.sel)

\* ------------------------------------------- preview arbitration (432-512)
PreviewCandidates(s) == {k \in DOMAIN s.rs : s.hover[k] > 0 /\ s.rs[k].selected}

\* a pick that falls back to no preview at all
pickNextPreviewRouteKey_None(s) == NoRoute

pickNextPreviewRouteKey(s) ==
  LET cand == {k \in PreviewCandidates(s) : s.order[k] > -1} IN
  IF cand = {} THEN NoRoute
  ELSE CHOOSE k \in cand : \A j \in cand : s.order[j] <= s.order[k]

applyActivePreviewRoute(s, k) ==
  IF s.active = k THEN s
  ELSE syncAllSelectedRouteLayers([s EXCEPT !.active = k])

\* startStationHoverPreview without the selected test of line 464
startStationHoverPreview_NoSelectedTest(s, k, initialDirectionKey) ==
  applyActivePreviewRoute(
    [s EXCEPT !.hover[k] = @ + 1,
              !.seq = @ + 1,
              !.order[k] = s.seq + 1,
              !.dir[k] = initialDirectionKey], k)

startStationHoverPreview(s, k, initialDirectionKey) ==
  IF ~s.rs[k].selected THEN s
  ELSE applyActivePreviewRoute(
         [s EXCEPT !.hover[k] = @ + 1,
                   !.seq = @ + 1,
                   !.order[k] = s.seq + 1,
                   !.dir[k] = initialDirectionKey], k)

setStationHoverPreviewDirection(s, k, directionKey) ==
  IF ~s.rs[k].selected THEN s
  ELSE IF s.hover[k] <= 0 THEN s
  ELSE IF s.dir[k] = directionKey THEN s
  ELSE LET s1 == [s EXCEPT !.dir[k] = directionKey]
       IN IF s1.active = k THEN syncSelectedRouteLayer(s1, k) ELSE s1

endStationHoverPreview(s, k) ==
  LET s1 == IF s.hover[k] <= 1
            THEN [s EXCEPT !.hover[k] = 0, !.order[k] = -1, !.dir[k] = NoDir]
            ELSE [s EXCEPT !.hover[k] = @ - 1]
  IN IF s1.active # k THEN s1
     ELSE IF s1.hover[k] > 0 THEN s1
     ELSE applyActivePreviewRoute(s1, pickNextPreviewRouteKey(s1))

clearStationHoverPreviewForRoute(s, k) ==
  LET s1 == [s EXCEPT !.hover[k] = 0, !.order[k] = -1, !.dir[k] = NoDir]
  IN IF s1.active # k THEN s1
     ELSE applyActivePreviewRoute(s1, pickNextPreviewRouteKey(s1))

\* scheduleStopClusterRebuild without the test of line 835
scheduleStopClusterRebuild_NoGuard(s) == [s EXCEPT !.frame = TRUE, !.frames = @ + 1]

scheduleStopClusterRebuild(s) ==
  IF s.frame THEN s ELSE [s EXCEPT !.frame = TRUE, !.frames = @ + 1]

\* ------------------------------------------------ route loading (934-1047)
\* buildRouteLayer makes a new layer group holding every shape of the route;
\* the variant before it also adds the group to the map.
buildRouteLayer_Attach(s, k) ==
  [s EXCEPT !.built[k] = @ + 1, !.rs[k].layer = s.built[k] + 1, !.shapes[k] = NoDir,
            !.map = @ \cup {<<k, s.built[k] + 1>>}]

buildRouteLayer(s, k) ==
  [s EXCEPT !.built[k] = @ + 1, !.rs[k].layer = s.built[k] + 1, !.shapes[k] = NoDir]

AddCall(s, c) == [s EXCEPT !.calls = Append(@, c)]

\* ---- schedule loading (966-1011). scheduleFile says that the route has a
\* schedule file and that its route data holds no services of its own
\* (activeServicesByDayByDirection); scheduleData and scheduleLoadPromise
\* are 0 for null or the number of the fetch; fetchCount counts the fetches
\* issued, awaiting the callers that await scheduleLoadPromise, and received
\* holds the ScheduleData handed to callers.
NoSchedule(scheduleFile) ==
  [scheduleFile |-> scheduleFile, scheduleData |-> 0, scheduleLoadPromise |-> 0,
   fetchCount |-> 0, awaiting |-> 0, received |-> {}]

IssueScheduleFetch(s, k) ==
  LET n == s.sched[k].fetchCount + 1 IN
  [s EXCEPT !.sched[k].fetchCount = n, !.sched[k].scheduleLoadPromise = n,
            !.sched[k].awaiting = 1,
            !.sfetches = @ \cup {[key |-> k, n |-> n]}]

\* ensureRouteScheduleLoaded without the scheduleLoadPromise test of 984-986
ensureRouteScheduleLoaded_NoSingleFlight(s, k) ==
  IF ~s.sched[k].scheduleFile THEN s
  ELSE IF s.sched[k].scheduleData # 0
    THEN [s EXCEPT !.sched[k].received = @ \cup {s.sched[k].scheduleData}]
  ELSE IssueScheduleFetch(s, k)

\* ensureRouteScheduleLoaded (970-998) for a caller that takes the promise
ensureRouteScheduleLoaded(s, k) ==
  IF ~s.sched[k].scheduleFile THEN s
  ELSE IF s.sched[k].scheduleData # 0
    THEN [s EXCEPT !.sched[k].received = @ \cup {s.sched[k].scheduleData}]
  ELSE IF s.sched[k].scheduleLoadPromise # 0
    THEN [s EXCEPT !.sched[k].awaiting = @ + 1]
  ELSE IssueScheduleFetch(s, k)

\* prefetchScheduleForRoute (1000-1011)
prefetchScheduleForRoute(s, k) ==
  IF s.rs[k].routeData = 0 THEN s
  ELSE IF ~s.sched[k].scheduleFile THEN s
  ELSE IF s.sched[k].scheduleData # 0 \/ s.sched[k].scheduleLoadPromise # 0 THEN s
  ELSE ensureRouteScheduleLoaded(s, k)

\* the handlers with a finally that clears the promise only after a success
scheduleLoadSettled_KeepPromise(s, f, success) ==
  LET k == f.key
      s0 == [s EXCEPT !.sfetches = @ \ {f}]
  IN IF success
       THEN [s0 EXCEPT !.sched[k].scheduleData = f.n, !.sched[k].received = @ \cup {f.n},
                       !.sched[k].scheduleLoadPromise = 0, !.sched[k].awaiting = 0]
       ELSE s0

\* the then and finally handlers of lines 989-995, and the callers resuming
scheduleLoadSettled(s, f, success) ==
  LET k == f.key
      s0 == [s EXCEPT !.sfetches = @ \ {f}]
      s1 == IF success
            THEN [s0 EXCEPT !.sched[k].scheduleData = f.n,
                            !.sched[k].received = @ \cup {f.n}]
            ELSE s0
  IN [s1 EXCEPT !.sched[k].scheduleLoadPromise = 0, !.sched[k].awaiting = 0]

\* buildClusterRouteViews (668-687) for one variant, to its await
buildClusterRouteView(s, k) ==
  IF s.sched[k].scheduleData # 0
    THEN [s EXCEPT !.sched[k].received = @ \cup {s.sched[k].scheduleData}]
  ELSE ensureRouteScheduleLoaded(s, k)

\* ensureRouteLoaded without the loadPromise test of lines 948-951
ensureRouteLoaded_NoSingleFlight(s, k, worker) ==
  LET c == [key |-> k, sel |-> TRUE, st |-> "ok", n |-> 0, own |-> FALSE, worker |-> worker]
      n == s.fc[k] + 1
  IN IF s.rs[k].layer # 0 THEN AddCall(prefetchScheduleForRoute(s, k), c)
     ELSE IF s.rs[k].routeData # 0
       THEN AddCall(prefetchScheduleForRoute(buildRouteLayer(s, k), k), c)
     ELSE AddCall([s EXCEPT !.fc[k] = n,
                            !.fetches = @ \cup {[key |-> k, n |-> n, by |-> "manager"]},
                            !.rs[k].loadPromise = n],
                  [c EXCEPT !.st = "wait", !.n = n, !.own = TRUE])

\* ensureRouteLoaded up to its first suspension, on behalf of the call it
\* suspends: st is "ok" when it returned without waiting, "wait" while the
\* call awaits loadPromise n.
ensureRouteLoaded(s, k, worker) ==
  LET c == [key |-> k, sel |-> TRUE, st |-> "ok", n |-> 0, own |-> FALSE, worker |-> worker] IN
  IF s.rs[k].layer # 0 THEN AddCall(prefetchScheduleForRoute(s, k), c)
  ELSE IF s.rs[k].routeData # 0
    THEN AddCall(prefetchScheduleForRoute(buildRouteLayer(s, k), k), c)
  ELSE IF s.rs[k].loadPromise # 0
    THEN AddCall(s, [c EXCEPT !.st = "wait", !.n = s.rs[k].loadPromise])
  ELSE LET n == s.fc[k] + 1 IN
    AddCall([s EXCEPT !.fc[k] = n,
                      !.fetches = @ \cup {[key |-> k, n |-> n, by |-> "manager"]},
                      !.rs[k].loadPromise = n],
            [c EXCEPT !.st = "wait", !.n = n, !.own = TRUE])

\* the entry of setRouteSelectionInternal without selectedRouteKeys.add
SelectSync_NoAdd(s, k, worker) ==
  ensureRouteLoaded([s EXCEPT !.rs[k].selected = TRUE], k, worker)

\* setRouteSelectionInternal(k, true, _) from its entry to the await of line 904
SelectSync(s, k, worker) ==
  ensureRouteLoaded([s EXCEPT !.rs[k].selected = TRUE, !.sel = SetAdd(@, k)], k, worker)

\* setRouteSelectionInternal(k, false, _): lines 897 and 922-925
DeselectSync(s, k) ==
  scheduleStopClusterRebuild(
    syncSelectedRouteLayer(
      clearStationHoverPreviewForRoute(
        [s EXCEPT !.rs[k].selected = FALSE, !.sel = SetDelete(@, k)], k), k))

\* the continuation with a catch block that only reports the failure
SelectSettled_NoRevert(s, c) ==
  LET k == c.key IN
  IF ~c.sel THEN s
  ELSE IF c.st = "ok"
    THEN IF ~s.rs[k].selected \/ s.rs[k].layer = 0 THEN s
         ELSE scheduleStopClusterRebuild(syncSelectedRouteLayer(s, k))
  ELSE [s EXCEPT !.status = <<"failed", k>>]

\* the rest of setRouteSelectionInternal once ensureRouteLoaded has settled
SelectSettled(s, c) ==
  LET k == c.key IN
  IF ~c.sel THEN s
  ELSE IF c.st = "ok"
    THEN IF ~s.rs[k].selected \/ s.rs[k].layer = 0 THEN s
         ELSE scheduleStopClusterRebuild(syncSelectedRouteLayer(s, k))
  ELSE [scheduleStopClusterRebuild(
          syncSelectedRouteLayer(
            clearStationHoverPreviewForRoute(
              [s EXCEPT !.rs[k].selected = FALSE, !.sel = SetDelete(@, k)], k), k))
        EXCEPT !.status = <<"failed", k>>]

\* ---------------------------------------- setRouteKeysSelected (844-878)
\* One iteration of a worker's loop: shift a key and run the call up to its await.
WorkerStep(s) ==
  LET k == Head(s.batch.queue)
      s1 == [s EXCEPT !.batch.queue = Tail(@)]
  IN IF s.batch.selected THEN SelectSync(s1, k, TRUE)
     ELSE AddCall(DeselectSync(s1, k),
                  [key |-> k, sel |-> FALSE, st |-> "ok", n |-> 0, own |-> FALSE, worker |-> TRUE])

RECURSIVE SpawnWorkers(_, _)
SpawnWorkers(s, n) ==
  IF n <= 0 \/ s.batch.queue = <<>> THEN s
  ELSE SpawnWorkers(WorkerStep(s), n - 1)

\* setRouteKeysSelected starting one worker for each key
setRouteKeysSelected_WorkerPerKey(s, keys, selected, concurrency, refreshUiAtEnd, text, owner) ==
  IF keys = <<>> THEN s
  ELSE SpawnWorkers(
         [s EXCEPT !.batch = [queue |-> keys, selected |-> selected,
                              owner |-> owner, refresh |-> refreshUiAtEnd,
                              concurrency |-> concurrency],
                   !.status = IF text = <<>> THEN @ ELSE text],
         Len(keys))

setRouteKeysSelected(s, keys, selected, concurrency, refreshUiAtEnd, text, owner) ==
  IF keys = <<>> THEN s
  ELSE SpawnWorkers(
         [s EXCEPT !.batch = [queue |-> keys, selected |-> selected,
                              owner |-> owner, refresh |-> refreshUiAtEnd,
                              concurrency |-> concurrency],
                   !.status = IF text = <<>> THEN @ ELSE text],
         Min2(concurrency, Len(keys)))

WorkersLeft(s) == {i \in DOMAIN s.calls : s.calls[i].worker}

BatchRunning(s) == s.batch.owner # "none"

\* Promise.all(workers) has settled: the call returns to its caller.
BatchFinishIfDone(s) ==
  IF BatchRunning(s) /\ WorkersLeft(s) = {}
  THEN [s EXCEPT !.batch = IdleBatch,
                 !.area.phase = IF s.batch.owner # "area" THEN @
                                ELSE IF @ = "clearing" THEN "cleared"
                                ELSE IF @ = "selecting" THEN "selected"
                                ELSE @]
  ELSE s

\* ------------------------------- resolveAreaRouteKeys (resolveAreaRouteKeys.ts)
AreaResolveConcurrency == 8
AreaClearConcurrency == 8
AreaSelectConcurrency == 6

IdleArea == [phase |-> "idle", kind |-> "none", candidates |-> <<>>,
             hits |-> {}, waiting |-> {}, matching |-> {}]

\* routeKeyMatchesArea once the route's data is there: the geometry test
AreaMatched(s, k) ==
  IF k \in s.area.hits THEN [s EXCEPT !.area.matching = @ \cup {k}] ELSE s

\* ensureRouteDataLoaded up to its first suspension
ensureRouteDataLoaded(s, k) ==
  IF s.rs[k].routeData # 0 THEN AreaMatched(s, k)
  ELSE IF s.rs[k].loadPromise # 0
    THEN [s EXCEPT !.area.waiting = @ \cup {[key |-> k, n |-> s.rs[k].loadPromise, own |-> FALSE]}]
  ELSE LET n == s.fc[k] + 1 IN
    [s EXCEPT !.fc[k] = n,
              !.fetches = @ \cup {[key |-> k, n |-> n, by |-> "area"]},
              !.area.waiting = @ \cup {[key |-> k, n |-> n, own |-> TRUE]}]

\* a worker of resolveAreaRouteKeys takes a key and runs to its await
RECURSIVE AreaWorkersStart(_, _)
AreaWorkersStart(s, keys) ==
  IF keys = <<>> THEN s
  ELSE AreaWorkersStart(ensureRouteDataLoaded(s, Head(keys)), Tail(keys))

\* the workers of resolveAreaRouteKeys start; the candidates of the model are
\* fewer than the workers, so every key is taken in this first pass
resolveAreaRouteKeys(s, keys) ==
  AreaWorkersStart(s, SubSeq(keys, 1, Min2(AreaResolveConcurrency, Len(keys))))

\* the finally block of doWork
AreaFinish(s) == [s EXCEPT !.areaIn = FALSE, !.area = IdleArea]

\* doWork of applyAreaFilter / clearAreaFilter resumes after an await
AreaResume(s) ==
  IF s.area.phase = "cleared"
    THEN IF s.area.kind = "clear" \/ s.area.candidates = <<>> THEN AreaFinish(s)
         ELSE resolveAreaRouteKeys([s EXCEPT !.area.phase = "resolving"], s.area.candidates)
  ELSE IF s.area.phase = "resolving"
    THEN LET keysToSelect == SelectSeq(s.area.candidates, LAMBDA k : k \in s.area.matching) IN
         IF keysToSelect = <<>> THEN AreaFinish(s)
         ELSE BatchFinishIfDone(
                setRouteKeysSelected([s EXCEPT !.area.phase = "selecting"], keysToSelect, TRUE,
                                     AreaSelectConcurrency, FALSE, <<"loading">>, "area"))
  ELSE AreaFinish(s)

AreaRunnable(s) ==
  \/ s.area.phase \in {"cleared", "selected"}
  \/ s.area.phase = "resolving" /\ s.area.waiting = {}

\* a continuation is runnable: no task may start before it has run
Runnable(s) == AreaRunnable(s) \/ \E i \in DOMAIN s.calls : s.calls[i].st # "wait"

NoMicrotask == ~Runnable(St)

\* ================================== stop cluster markers and their popups
\* The stops of the loaded routes fall on fixed sites; the cluster of a site
\* holds one variant for each selected, loaded route that stops there.
SiteRoutes(site) == IF site = 1 THEN {1, 2} ELSE {2}

\* direction keys with departures at a route's stop (getStopDirectionKeysForHoverPreview)
StopDirs(k) == IF k = 1 THEN <<"d0", "d1">> ELSE <<"d0">>

NoCluster(site) ==
  [site |-> site, exists |-> FALSE, variants |-> {}, activeRouteKey |-> NoRoute,
   previewRouteKey |-> NoRoute, focused |-> FALSE,
   hoverSessionActive |-> FALSE, popupRequestToken |-> 0, closeTimer |-> "null",
   timers |-> 0,
   popupOpen |-> FALSE, boundInteractive |-> FALSE,
   content |-> "empty", contentToken |-> 0, panelIndex |-> 0, dirIndex |-> 0,
   requests |-> {}, lastSettle |-> "none", sessionCalls |-> <<>>, replacedCalls |-> <<>>]

\* variants in compareStopVariants order
Variants(cl) == SortedSeq(cl.variants)

getActiveClusterVariant(cl) ==
  IF cl.activeRouteKey \in cl.variants THEN cl.activeRouteKey ELSE Variants(cl)[1]

setClusterActiveRoute(cl, k) ==
  IF k \in cl.variants THEN [cl EXCEPT !.activeRouteKey = k] ELSE cl

getInitialDirectionForVariant(k) ==
  IF Len(StopDirs(k)) = 1 THEN StopDirs(k)[1] ELSE NoDir

\* the last two hover session callbacks made for the marker
LogCall(cl, what) ==
  [cl EXCEPT !.sessionCalls = IF Len(@) < 2 THEN Append(@, what) ELSE <<@[2], what>>]

\* ---- the callbacks rebuildStopClusters hands to attachInteractivePopup (777-822)
onHoverSessionStart(p) ==
  LET k == getActiveClusterVariant(p.cl) IN
  [p EXCEPT !.s = startStationHoverPreview(@, k, getInitialDirectionForVariant(k)),
            !.cl = [LogCall(@, "start") EXCEPT !.previewRouteKey = k, !.focused = TRUE]]

PreviewSwitch(p, k, d) ==
  IF p.cl.previewRouteKey = NoRoute
    THEN [p EXCEPT !.s = startStationHoverPreview(@, k, d), !.cl.previewRouteKey = k]
  ELSE IF p.cl.previewRouteKey # k
    THEN [p EXCEPT !.s = startStationHoverPreview(endStationHoverPreview(@, p.cl.previewRouteKey), k, d),
                   !.cl.previewRouteKey = k]
  ELSE [p EXCEPT !.s = setStationHoverPreviewDirection(@, k, d)]

onRouteChange(p, k, d) ==
  IF k = NoRoute THEN p
  ELSE PreviewSwitch([p EXCEPT !.cl = [setClusterActiveRoute(@, k) EXCEPT !.focused = TRUE]], k, d)

onDirectionChange(p, k, d) ==
  IF k = NoRoute THEN p ELSE PreviewSwitch(p, k, d)

onHoverSessionEnd(p) ==
  LET cl1 == [LogCall(p.cl, "end") EXCEPT !.focused = FALSE] IN
  IF p.cl.previewRouteKey = NoRoute THEN [p EXCEPT !.cl = cl1]
  ELSE [p EXCEPT !.s = endStationHoverPreview(@, p.cl.previewRouteKey),
                 !.cl = [cl1 EXCEPT !.previewRouteKey = NoRoute]]

\* ---- attachInteractivePopup (attachInteractivePopup.ts)
\* closeTimer is the handle held by the closure: "null", the handle of a
\* timeout still to fire ("pending") or of one that has fired ("fired");
\* timers counts the timeouts of this marker still to fire.
\* clearTimeout on a handle whose timeout has fired does nothing.
clearCloseTimer(cl) ==
  IF cl.closeTimer # "null"
    THEN [cl EXCEPT !.closeTimer = "null",
                    !.timers = IF cl.closeTimer = "pending" THEN @ - 1 ELSE @]
  ELSE cl

\* scheduleClose without the clearCloseTimer call of line 56
scheduleClose_NoClear(cl) == [cl EXCEPT !.closeTimer = "pending", !.timers = @ + 1]

scheduleClose(cl) == [clearCloseTimer(cl) EXCEPT !.closeTimer = "pending", !.timers = @ + 1]

\* beginHoverSession without the hoverSessionActive test of line 63
beginHoverSession_NoGuard(p) ==
  onHoverSessionStart([p EXCEPT !.cl.hoverSessionActive = TRUE])

beginHoverSession(p) ==
  IF p.cl.hoverSessionActive THEN p
  ELSE onHoverSessionStart([p EXCEPT !.cl.hoverSessionActive = TRUE])

endHoverSession(p) ==
  IF ~p.cl.hoverSessionActive THEN p
  ELSE onHoverSessionEnd([p EXCEPT !.cl.hoverSessionActive = FALSE])

\* the index taken as the plain remainder
normalizeIndex_Remainder(index, n) == JsRem(index, n)

\* normalizeIndex (91) and normalizeRouteIndex (189); n is panels.length
normalizeIndex(index, n) == JsRem(JsRem(index, n) + n, n)

\* The panels of a popup are a sequence of [key, active]: the key is
\* dataset.routePanel or dataset.directionPanel, active the is-active class
\* and aria-hidden = "false". This is the loop of setActiveRouteByIndex
\* (192-198) and of setActiveDirectionByIndex (95-101) and the key handed to
\* the callback (200-201, 103-104); NoRoute stands for null.
setActivePanelByIndex(panels, index) ==
  LET normalizedIndex == normalizeIndex(index, Len(panels)) IN
  [panels |-> [panelIndex \in DOMAIN panels |->
                 [panels[panelIndex] EXCEPT !.active = (panelIndex - 1 = normalizedIndex)]],
   activeKey |-> IF normalizedIndex + 1 \in DOMAIN panels
                   THEN panels[normalizedIndex + 1].key ELSE NoRoute]

\* the .route-panel elements of the popup: one for each variant when the
\* content was built for two or more route views
RoutePanels(cl) ==
  IF cl.content = "full" /\ Cardinality(cl.variants) >= 2 THEN Variants(cl) ELSE <<>>

\* the .direction-panel elements inside the panel of route k
DirectionPanels(cl, k) ==
  IF cl.content = "full" /\ k # NoRoute THEN StopDirs(k) ELSE <<>>

setActiveDirectionByIndex(p, scope, routeKey, index, emitChange) ==
  LET panels == DirectionPanels(p.cl, scope)
      normalizedIndex == normalizeIndex(index, Len(panels))
      activeDirectionKey == panels[normalizedIndex + 1]
      p1 == [p EXCEPT !.cl.dirIndex = IF Len(panels) >= 2 THEN normalizedIndex ELSE @]
  IN [p |-> IF emitChange THEN onDirectionChange(p1, routeKey, activeDirectionKey) ELSE p1,
      key |-> activeDirectionKey]

\* the index of the .is-active direction panel in the scope
ActiveDirIndex(cl, scope) == IF Len(DirectionPanels(cl, scope)) >= 2 THEN cl.dirIndex ELSE 0

bindDirectionToggles(p, scope, routeKey, emitInitialChange) ==
  IF DirectionPanels(p.cl, scope) = <<>>
    THEN [p |-> IF emitInitialChange THEN onDirectionChange(p, routeKey, NoDir) ELSE p,
          key |-> NoDir]
  ELSE setActiveDirectionByIndex(p, scope, routeKey, ActiveDirIndex(p.cl, scope), emitInitialChange)

setActiveRouteByIndex(p, index, emitRouteChange) ==
  LET routePanels == RoutePanels(p.cl)
      normalizedIndex == normalizeIndex(index, Len(routePanels))
      activeRouteKey == routePanels[normalizedIndex + 1]
      p1 == [p EXCEPT !.cl.panelIndex = normalizedIndex]
      b == bindDirectionToggles(p1, activeRouteKey, activeRouteKey, TRUE)
  IN IF emitRouteChange THEN onRouteChange(b.p, activeRouteKey, b.key) ELSE b.p

defaultRouteKey(cl) == Variants(cl)[1]

bindRouteToggles(p) ==
  IF RoutePanels(p.cl) = <<>>
    THEN bindDirectionToggles(p, IF p.cl.content = "full" THEN Variants(p.cl)[1] ELSE NoRoute,
                              defaultRouteKey(p.cl), TRUE).p
  ELSE setActiveRouteByIndex(p, p.cl.panelIndex, TRUE)

bindPopupBehaviors(p) == bindRouteToggles([p EXCEPT !.cl.boundInteractive = TRUE])

\* marker.closePopup(): Leaflet fires popupclose when the popup was open
MarkerClosePopup(p) ==
  IF ~p.cl.popupOpen THEN p
  ELSE endHoverSession([p EXCEPT !.cl.popupOpen = FALSE])

\* the map shows one popup at a time (Leaflet's autoClose, which the options
\* of line 760 leave on): opening a popup first closes the open one
CloseOpenPopup(p) ==
  LET open == {o \in DOMAIN p.others : p.others[o].popupOpen} IN
  IF open = {} THEN p
  ELSE LET o == CHOOSE x \in open : TRUE
           q == MarkerClosePopup([s |-> p.s, cl |-> p.others[o], others |-> <<>>])
       IN [p EXCEPT !.s = q.s, !.others[o] = q.cl]

\* marker.openPopup(): Leaflet fires popupopen when the popup was closed
MarkerOpenPopup(p) ==
  IF p.cl.popupOpen THEN p
  ELSE bindPopupBehaviors([CloseOpenPopup(p) EXCEPT !.cl.popupOpen = TRUE])

openPopup(p) ==
  LET token == p.cl.popupRequestToken + 1
      cl1 == [clearCloseTimer(p.cl) EXCEPT !.popupRequestToken = token,
                                           !.content = "loading", !.contentToken = 0,
                                           !.panelIndex = 0, !.dirIndex = 0]
      p1 == MarkerOpenPopup([p EXCEPT !.cl = cl1])
  IN [p1 EXCEPT !.cl.requests = @ \cup {token}]

openPopupWithPreviewSession(p) == openPopup(beginHoverSession(p))

\* the content the factory built: the panel of the cluster's active route is
\* the active one (getInitialRouteIndex), each panel on its first direction
SetFullContent(cl, token) ==
  [cl EXCEPT !.content = "full", !.contentToken = token,
             !.panelIndex = IF Cardinality(cl.variants) >= 2 /\ cl.activeRouteKey \in cl.variants
                            THEN Cardinality({v \in cl.variants : v < cl.activeRouteKey})
                            ELSE 0,
             !.dirIndex = 0]

\* a catch handler that only logs the error
SetErrorContent_LogOnly(cl, token) == cl

SetErrorContent(cl, token) ==
  [cl EXCEPT !.content = "error", !.contentToken = token, !.panelIndex = 0, !.dirIndex = 0]

\* the handlers without the token test of lines 296 and 303
ContentSettled_NoTokenCheck(p, token, success) ==
  IF ~p.cl.popupOpen THEN [p EXCEPT !.cl.lastSettle = "closed"]
  ELSE bindPopupBehaviors(
         [p EXCEPT !.cl = [(IF success THEN SetFullContent(@, token) ELSE SetErrorContent(@, token))
                           EXCEPT !.lastSettle = "written"]])

\* the then / catch handlers of openPopup (295-307)
ContentSettled(p, token, success) ==
  IF token # p.cl.popupRequestToken THEN [p EXCEPT !.cl.lastSettle = "stale"]
  ELSE IF ~p.cl.popupOpen THEN [p EXCEPT !.cl.lastSettle = "closed"]
  ELSE bindPopupBehaviors(
         [p EXCEPT !.cl = [(IF success THEN SetFullContent(@, token) ELSE SetErrorContent(@, token))
                           EXCEPT !.lastSettle = "written"]])

\* the marker leaves the map: the close handler Leaflet's bindPopup
\* registered runs first, then the handler of lines 327-330
MarkerRemoved(p) ==
  LET p1 == MarkerClosePopup(p) IN
  endHoverSession([p1 EXCEPT !.cl = clearCloseTimer(@)])

P(site) ==
  [s |-> St, cl |-> stopClusterLayers[site],
   others |-> [o \in DOMAIN stopClusterLayers \ {site} |-> stopClusterLayers[o]]]

CommitP(site, p) ==
  /\ Commit(p.s)
  /\ stopClusterLayers' = [o \in DOMAIN stopClusterLayers |-> IF o = site THEN p.cl ELSE p.others[o]]
  /\ UNCHANGED hoverCapable

Sites == DOMAIN stopClusterLayers

\* rebuildStopClusters (699-832): every marker is removed, then one cluster
\* is built for each site a selected, loaded route stops at
RECURSIVE RemoveMarkers(_, _)
RemoveMarkers(s, sites) ==
  IF sites = {} THEN s
  ELSE LET site == CHOOSE x \in sites : \A y \in sites : x <= y
           cl == stopClusterLayers[site]
       IN RemoveMarkers(IF cl.exists THEN MarkerRemoved([s |-> s, cl |-> cl, others |-> <<>>]).s ELSE s,
                        sites \ {site})

collectSelectedStopVariants(s, site) ==
  {k \in Range(s.sel) \cap SiteRoutes(site) : s.rs[k].selected /\ s.rs[k].routeData # 0}

\* the session callbacks made for the marker of the site up to its removal
ReplacedCalls(site) ==
  LET cl == stopClusterLayers[site] IN
  IF cl.exists THEN MarkerRemoved([s |-> St, cl |-> cl, others |-> <<>>]).cl.sessionCalls
  ELSE <<>>

NewCluster(s, site) ==
  LET variants == collectSelectedStopVariants(s, site) IN
  IF variants = {} THEN NoCluster(site)
  ELSE [NoCluster(site) EXCEPT !.exists = TRUE, !.variants = variants,
                               !.activeRouteKey = SortedSeq(variants)[1]]

\* =================================================================== tasks
\* toggleRoute(k, true) -> setRouteSelection(k, true)
SelectRoute(k) ==
  /\ NoMicrotask
  /\ Commit(SelectSync(St, k, FALSE))
  /\ UNCHANGED popupVars

\* toggleRoute(k, false) -> setRouteSelection(k, false)
DeselectRoute(k) ==
  /\ NoMicrotask
  /\ Commit(DeselectSync(St, k))
  /\ UNCHANGED popupVars

\* a geometry fetch settles; the code awaiting the fetch itself resumes
FetchSettle(f, success) ==
  /\ NoMicrotask
  /\ f \in fetches
  /\ LET k == f.key
         s0 == [St EXCEPT !.fetches = @ \ {f}]
         \* lines 953-956 and the finally of 961-963, or line 20 of resolveAreaRouteKeys.ts
         s1 == IF f.by = "manager"
               THEN IF success
                    THEN prefetchScheduleForRoute(
                           buildRouteLayer([s0 EXCEPT !.rs[k].routeData = f.n,
                                                      !.rs[k].loadPromise = 0], k), k)
                    ELSE [s0 EXCEPT !.rs[k].loadPromise = 0]
               ELSE IF success THEN [s0 EXCEPT !.rs[k].routeData = f.n] ELSE s0
         \* every call awaiting this loadPromise becomes runnable
         s2 == IF f.by = "manager"
               THEN [s1 EXCEPT !.calls = [i \in DOMAIN s1.calls |->
                       IF s1.calls[i].st = "wait" /\ s1.calls[i].key = k /\ s1.calls[i].n = f.n
                       THEN [s1.calls[i] EXCEPT !.st = IF success THEN "ok" ELSE "fail"]
                       ELSE s1.calls[i]]]
               ELSE s1
         mine == {w \in s2.area.waiting : w.key = k /\ w.n = f.n /\ (w.own <=> f.by = "area")}
         s3 == [s2 EXCEPT !.area.waiting = @ \ mine]
         s4 == IF mine # {} /\ success THEN AreaMatched(s3, k) ELSE s3
     IN Commit(s4)
  /\ UNCHANGED popupVars

\* a schedule fetch settles
ScheduleFetchSettle(f, success) ==
  /\ NoMicrotask
  /\ f \in scheduleFetches
  /\ Commit(scheduleLoadSettled(St, f, success))
  /\ UNCHANGED popupVars

\* the content factory of a popup builds the view of a variant of route k
BuildClusterRouteView(k) ==
  /\ NoMicrotask
  /\ routeStateByKey[k].routeData # 0
  /\ Commit(buildClusterRouteView(St, k))
  /\ UNCHANGED popupVars

\* a suspended setRouteSelectionInternal call resumes after its await
Continue(i) ==
  /\ i \in DOMAIN calls
  /\ calls[i].st # "wait"
  /\ LET c == calls[i]
         s1 == SelectSettled([St EXCEPT !.calls = RemoveAt(@, i)], c)
         s2 == IF ~c.worker THEN s1
               ELSE IF s1.batch.queue # <<>> THEN WorkerStep(s1)
               ELSE BatchFinishIfDone(s1)
     IN Commit(s2)
  /\ UNCHANGED popupVars

\* doWork resumes
AreaContinue ==
  /\ AreaRunnable(St)
  /\ Commit(AreaResume(St))
  /\ UNCHANGED popupVars

\* applyAreaFilter that goes to resolveAreaRouteKeys without clearing the selection
applyAreaFilter_NoClear(candidates, hits) ==
  /\ NoMicrotask
  /\ ~areaSelectionInProgress
  /\ ~BatchRunning(St)
  /\ Commit([St EXCEPT !.areaIn = TRUE,
                       !.area = [IdleArea EXCEPT !.phase = "cleared", !.kind = "apply",
                                                 !.candidates = SortedSeq(candidates),
                                                 !.hits = hits]])
  /\ UNCHANGED popupVars

\* applyAreaFilter(map): the candidates are the routes left visible by the
\* bounds filter, hits the candidates whose geometry intersects the area
applyAreaFilter(candidates, hits) ==
  /\ NoMicrotask
  /\ ~areaSelectionInProgress
  /\ ~BatchRunning(St)
  /\ LET s0 == [St EXCEPT !.areaIn = TRUE,
                          !.area = [IdleArea EXCEPT !.phase = "clearing", !.kind = "apply",
                                                    !.candidates = SortedSeq(candidates),
                                                    !.hits = hits]]
         s1 == setRouteKeysSelected(s0, s0.sel, FALSE, AreaClearConcurrency, FALSE, <<"clearing">>, "area")
         s2 == IF BatchRunning(s1) THEN BatchFinishIfDone(s1) ELSE [s1 EXCEPT !.area.phase = "cleared"]
     IN Commit(s2)
  /\ UNCHANGED popupVars

clearAreaFilter ==
  /\ NoMicrotask
  /\ ~areaSelectionInProgress
  /\ ~BatchRunning(St)
  /\ LET s0 == [St EXCEPT !.areaIn = TRUE,
                          !.area = [IdleArea EXCEPT !.phase = "clearing", !.kind = "clear"]]
         s1 == setRouteKeysSelected(s0, s0.sel, FALSE, AreaClearConcurrency, FALSE, <<"clearing">>, "area")
         s2 == IF BatchRunning(s1) THEN BatchFinishIfDone(s1) ELSE [s1 EXCEPT !.area.phase = "cleared"]
     IN Commit(s2)
  /\ UNCHANGED popupVars

\* setRouteKeysSelected(keys, selected, {concurrency}) called by itself
SetRouteKeys(keys, selected, concurrency) ==
  /\ NoMicrotask
  /\ ~BatchRunning(St)
  /\ Commit(BatchFinishIfDone(
       setRouteKeysSelected(St, SortedSeq(keys), selected, concurrency, TRUE, <<>>, "api")))
  /\ UNCHANGED popupVars

\* the one call of setRouteKeysSelected of a behaviour that follows a single
\* batch: its arguments are those of the sample
BatchCall ==
  /\ sample.fn = "batch"
  /\ NoMicrotask
  /\ ~BatchRunning(St)
  /\ CommitManager(BatchFinishIfDone(
       setRouteKeysSelected(St, sample.keys, sample.selected, sample.concurrency,
                            TRUE, <<>>, "api")))
  /\ sample' = [sample EXCEPT !.fn = "called"]
  /\ UNCHANGED <<popupVars, liveVars, backend>>

\* the animation frame of scheduleStopClusterRebuild fires
RebuildFrame ==
  /\ NoMicrotask
  /\ animationFramesRequested > 0
  /\ LET s1 == RemoveMarkers([St EXCEPT !.frame = FALSE, !.frames = @ - 1], Sites) IN
     /\ Commit(s1)
     /\ stopClusterLayers' =
          [site \in Sites |-> [NewCluster(s1, site) EXCEPT !.replacedCalls = ReplacedCalls(site)]]
  /\ UNCHANGED hoverCapable

\* ---- events on a cluster's hit marker and its popup
MarkerMouseover(site) ==
  /\ NoMicrotask
  /\ hoverCapable
  /\ stopClusterLayers[site].exists
  /\ CommitP(site, openPopupWithPreviewSession(P(site)))

MarkerMouseout(site) ==
  /\ NoMicrotask
  /\ hoverCapable
  /\ stopClusterLayers[site].exists
  /\ CommitP(site, [P(site) EXCEPT !.cl = scheduleClose(@)])

\* a click on the marker: the click handler hitMarker.bindPopup registered
\* (line 760) opens the popup, then the handler of line 319 runs
MarkerClick(site) ==
  /\ NoMicrotask
  /\ stopClusterLayers[site].exists
  /\ CommitP(site, openPopupWithPreviewSession(MarkerOpenPopup(P(site))))

\* the timer of scheduleClose fires (57-59)
CloseTimerFires(site) ==
  /\ NoMicrotask
  /\ stopClusterLayers[site].timers > 0
  /\ \E held \in BOOLEAN :
       \* the timeout that fires is the one closeTimer holds, or another one
       /\ held => stopClusterLayers[site].closeTimer = "pending"
       /\ ~held => stopClusterLayers[site].timers >
                      (IF stopClusterLayers[site].closeTimer = "pending" THEN 1 ELSE 0)
       /\ CommitP(site, MarkerClosePopup(
            [P(site) EXCEPT !.cl.timers = @ - 1,
                            !.cl.closeTimer = IF held THEN "fired" ELSE @]))

\* the pointer enters / leaves the popup body (282-283)
PopupMouseenter(site) ==
  /\ NoMicrotask
  /\ stopClusterLayers[site].popupOpen
  /\ stopClusterLayers[site].boundInteractive
  /\ CommitP(site, [P(site) EXCEPT !.cl = clearCloseTimer(@)])

PopupMouseleave(site) ==
  /\ NoMicrotask
  /\ stopClusterLayers[site].popupOpen
  /\ stopClusterLayers[site].boundInteractive
  /\ CommitP(site, [P(site) EXCEPT !.cl = scheduleClose(@)])

\* the popup is closed from outside (a click on the map, the Escape key)
PopupClosed(site) ==
  /\ NoMicrotask
  /\ stopClusterLayers[site].popupOpen
  /\ CommitP(site, MarkerClosePopup(P(site)))

\* the content factory's promise of request `token' settles
ContentSettle(site, token, success) ==
  /\ NoMicrotask
  /\ token \in stopClusterLayers[site].requests
  /\ CommitP(site, ContentSettled([P(site) EXCEPT !.cl.requests = @ \ {token}], token, success))

\* a .route-nav button of the popup is clicked (238-244)
RouteNavClick(site, delta) ==
  /\ NoMicrotask
  /\ stopClusterLayers[site].popupOpen
  /\ RoutePanels(stopClusterLayers[site]) # <<>>
  /\ CommitP(site, setActiveRouteByIndex(P(site), stopClusterLayers[site].panelIndex + delta, TRUE))

\* the .direction-switch button of the active panel is clicked (140-144)
DirectionSwitchClick(site) ==
  /\ NoMicrotask
  /\ stopClusterLayers[site].popupOpen
  /\ stopClusterLayers[site].content = "full"
  /\ LET cl == stopClusterLayers[site]
         k == IF RoutePanels(cl) = <<>> THEN Variants(cl)[1] ELSE RoutePanels(cl)[cl.panelIndex + 1]
         routeKey == IF RoutePanels(cl) = <<>> THEN defaultRouteKey(cl) ELSE k
     IN /\ Len(DirectionPanels(cl, k)) >= 2
        /\ CommitP(site, setActiveDirectionByIndex(P(site), k, routeKey, cl.dirIndex + 1, TRUE).p)

\* ---- the calls the cluster callbacks make on the manager (777-822)
StartPreview(k, d) ==
  /\ NoMicrotask
  /\ Commit(startStationHoverPreview(St, k, d))
  /\ UNCHANGED popupVars

SetPreviewDirection(k, d) ==
  /\ NoMicrotask
  /\ Commit(setStationHoverPreviewDirection(St, k, d))
  /\ UNCHANGED popupVars

\* a callback ends the preview it started
EndPreview(k) ==
  /\ NoMicrotask
  /\ previewHoverCountsByRouteKey[k] > 0
  /\ Commit(endStationHoverPreview(St, k))
  /\ UNCHANGED popupVars

\* ================================ live vehicle layer (liveVehicleLayerManager.ts)
\* A route key is <<agency prefix, number>>; LiveRouteKeyOrder lists the keys
\* the manager can be handed in the order Array.prototype.sort gives them.
LiveRouteKeyOrder == << <<"njt", 1>>, <<"other", 9>>, <<"princeton", 2>> >>

LiveRouteKeys == Range(LiveRouteKeyOrder)

isRealtimeRouteKey(routeKey) == routeKey[1] = "princeton" \/ routeKey[1] = "njt"

\* [...routeKeys].sort().join("|"): the keys in sorted order
toRouteKeySignature(routeKeys) == SelectSeq(LiveRouteKeyOrder, LAMBDA k : k \in routeKeys)

\* the vehicles the backend can report and the route each one runs on
VehicleIds == {"a", "b"}

VehicleRoute(id) == IF id = "a" THEN <<"njt", 1>> ELSE <<"princeton", 2>>

Positions == {0, 2}

Agencies == {"njt", "princeton"}

\* source.message ?? "": a source without a message and one with an empty
\* message read the same
NoMessage == ""

\* the sources a response of the live layer's polls can carry
SourceStatuses == {[status |-> "ok", message |-> NoMessage],
                   [status |-> "error", message |-> "timeout"]}

\* every status of LiveVehiclesSourceStatus without a message, and the
\* failing ones with a message too
SourceReports == [status : {"ok", "error", "unavailable", "skipped"}, message : {NoMessage}]
                   \cup [status : {"error", "unavailable"}, message : {"timeout"}]

\* `${source.status}:${source.message ?? ""}` (329): no status holds a colon,
\* so the text is the pair
SourceSignature(source) == <<source.status, source.message>>

NoSignature == <<>>

NoController == 0

LiveSt ==
  [keys |-> liveSelectedRouteKeys, sig |-> selectedRouteKeySignature,
   timer |-> pollTimer, intervals |-> pollIntervals, ctl |-> inFlightController,
   destroyed |-> destroyed, layers |-> layersByVehicleId,
   status |-> sourceStatusSignatureByAgency, polls |-> polls, made |-> pollsMade,
   group |-> layerGroupOnMap, last |-> lastPoll,
   created |-> vehicleMarkersCreated, anim |-> vehicleAnimationFrames,
   warned |-> sourceWarnings]

LiveCommit(l) ==
  /\ liveSelectedRouteKeys' = l.keys
  /\ selectedRouteKeySignature' = l.sig
  /\ pollTimer' = l.timer
  /\ pollIntervals' = l.intervals
  /\ inFlightController' = l.ctl
  /\ destroyed' = l.destroyed
  /\ layersByVehicleId' = l.layers
  /\ sourceStatusSignatureByAgency' = l.status
  /\ polls' = l.polls
  /\ pollsMade' = l.made
  /\ layerGroupOnMap' = l.group
  /\ lastPoll' = l.last
  /\ vehicleMarkersCreated' = l.created
  /\ vehicleAnimationFrames' = l.anim
  /\ sourceWarnings' = l.warned
  /\ UNCHANGED <<mgrVars, areaVars, popupVars, sample, backend>>

\* stopPolling that leaves the interval running
stopPolling_KeepInterval(l) == l

stopPolling(l) ==
  IF l.timer THEN [l EXCEPT !.timer = FALSE, !.intervals = @ - 1] ELSE l

startPolling(l) ==
  IF l.timer THEN l ELSE [l EXCEPT !.timer = TRUE, !.intervals = @ + 1]

\* removeVehicleLayer for every entry, then layersByVehicleId.clear()
NoLayers == [id \in {} |-> 0]

\* cancelAnimation (134-139) on the layer of vehicle id
cancelAnimation(l, id) ==
  IF l.layers[id].animationFrame
    THEN [l EXCEPT !.anim = @ \ {l.layers[id].object}, !.layers[id].animationFrame = FALSE]
  ELSE l

\* removeVehicleLayer that leaves the requested frame alone
removeVehicleLayer_KeepAnimation(l, id) ==
  [l EXCEPT !.layers = [j \in DOMAIN l.layers \ {id} |-> l.layers[j]]]

\* removeVehicleLayer (141-148) and the layersByVehicleId.delete after it
removeVehicleLayer(l, id) ==
  LET l1 == cancelAnimation(l, id) IN
  [l1 EXCEPT !.layers = [j \in DOMAIN l1.layers \ {id} |-> l1.layers[j]]]

RECURSIVE removeVehicleLayers(_, _)
removeVehicleLayers(l, ids) ==
  IF ids = {} THEN l
  ELSE LET id == CHOOSE id \in ids : TRUE
       IN removeVehicleLayers(removeVehicleLayer(l, id), ids \ {id})

clearAllLayers(l) == removeVehicleLayers(l, DOMAIN l.layers)

\* inFlightController.abort(); inFlightController = null
AbortInFlight(l) ==
  IF l.ctl = NoController THEN l
  ELSE [l EXCEPT !.polls = {IF r.id = l.ctl THEN [r EXCEPT !.aborted = TRUE] ELSE r : r \in @},
                 !.ctl = NoController]

\* createVehicleLayer: marker at the vehicle's position, no animation
createVehicleLayer(id, pos, object) ==
  [object |-> object, vehicle |-> pos, marker |-> pos, animationFrame |-> FALSE,
   from |-> pos, to |-> pos]

\* animateVehicleTo: the pending frame is cancelled; a marker that is to move
\* gets a frame requested and keeps its vehicle until the animation ends
animateVehicleTo(layerState, pos) ==
  IF layerState.marker = pos
    THEN [layerState EXCEPT !.vehicle = pos, !.marker = pos, !.animationFrame = FALSE,
                            !.from = pos, !.to = pos]
  ELSE [layerState EXCEPT !.animationFrame = TRUE, !.from = layerState.marker, !.to = pos]

\* syncVehicleLayers: vehicles maps the ids of the response to positions
syncVehicleLayers(l, vehicles) ==
  LET nextById == {id \in DOMAIN vehicles : VehicleRoute(id) \in l.keys}
      l1 == removeVehicleLayers(l, DOMAIN l.layers \ nextById)
      existing == DOMAIN l1.layers
      created == nextById \ existing
      objectOf == CHOOSE f \in [created -> (l.created + 1)..(l.created + Cardinality(created))] :
                    \A i, j \in created : f[i] = f[j] => i = j
      layers == [id \in nextById |->
                   IF id \in existing
                   THEN animateVehicleTo(l1.layers[id], vehicles[id])
                   ELSE createVehicleLayer(id, vehicles[id], objectOf[id])]
  IN [l1 EXCEPT !.layers = layers,
                !.created = @ + Cardinality(created),
                !.anim = (@ \ {l1.layers[id].object : id \in existing})
                           \cup {layers[id].object : id \in {j \in existing : layers[j].animationFrame}}]

\* syncSourceStatuses: sources maps the agencies of the response to a status
\* syncSourceStatuses without the comparison of line 331
syncSourceStatuses_NoComparison(l, sources) ==
  LET warns(a) == a \in DOMAIN sources /\ sources[a].status \notin {"ok", "skipped"}
  IN [l EXCEPT !.status = [a \in Agencies |->
                             IF a \in DOMAIN sources THEN SourceSignature(sources[a])
                             ELSE l.status[a]],
               !.warned = [a \in Agencies |-> l.warned[a] + IF warns(a) THEN 1 ELSE 0]]

syncSourceStatuses(l, sources) ==
  LET changed(a) == a \in DOMAIN sources /\ l.status[a] # SourceSignature(sources[a])
      warns(a) == changed(a) /\ sources[a].status \notin {"ok", "skipped"}
  IN [l EXCEPT !.status = [a \in Agencies |->
                             IF changed(a) THEN SourceSignature(sources[a]) ELSE l.status[a]],
               !.warned = [a \in Agencies |-> l.warned[a] + IF warns(a) THEN 1 ELSE 0]]

\* refreshVehicles without the inFlightController test of line 299
refreshVehicles_NoInFlightTest(l) ==
  IF l.destroyed THEN l
  ELSE IF l.keys = {} THEN clearAllLayers(l)
  ELSE [l EXCEPT !.made = @ + 1, !.ctl = l.made + 1,
                 !.polls = @ \cup {[id |-> l.made + 1, keys |-> l.keys, sig |-> l.sig,
                                    aborted |-> FALSE]}]

\* refreshVehicles up to its await (297-312)
refreshVehicles(l) ==
  IF l.destroyed THEN l
  ELSE IF l.ctl # NoController THEN l
  ELSE IF l.keys = {} THEN clearAllLayers(l)
  ELSE [l EXCEPT !.made = @ + 1, !.ctl = l.made + 1,
                 !.polls = @ \cup {[id |-> l.made + 1, keys |-> l.keys, sig |-> l.sig,
                                    aborted |-> FALSE]}]

\* the response handling without the signature test of line 314
ApplyResponse_NoSignatureTest(l, r, vehicles, sources) ==
  IF l.destroyed THEN [l EXCEPT !.last = "destroyed"]
  ELSE [syncVehicleLayers(syncSourceStatuses(l, sources), vehicles) EXCEPT !.last = "applied"]

\* lines 313-316
ApplyResponse(l, r, vehicles, sources) ==
  IF l.destroyed THEN [l EXCEPT !.last = "destroyed"]
  ELSE IF r.sig # l.sig THEN [l EXCEPT !.last = "stale"]
  ELSE [syncVehicleLayers(syncSourceStatuses(l, sources), vehicles) EXCEPT !.last = "applied"]

\* the finally of refreshVehicles without the release of lines 321-323
ReleaseInFlight_Keep(l, r) == l

\* lines 320-324
ReleaseInFlight(l, r) ==
  IF l.ctl = r.id THEN [l EXCEPT !.ctl = NoController] ELSE l

\* refreshVehicles after its await (312-324)
refreshSettled(l, r, ok, vehicles, sources) ==
  LET l1 == [l EXCEPT !.polls = @ \ {r}] IN
  ReleaseInFlight(IF ok THEN ApplyResponse(l1, r, vehicles, sources)
                  ELSE [l1 EXCEPT !.last = IF r.aborted THEN "aborted" ELSE "failed"], r)

setSelectedRouteKeysFromState(l, routeKeys) ==
  LET nextRouteKeys == {k \in routeKeys : isRealtimeRouteKey(k)}
      nextSignature == toRouteKeySignature(nextRouteKeys)
  IN IF l.destroyed THEN l
     ELSE IF nextSignature = l.sig THEN l
     ELSE LET l1 == [l EXCEPT !.keys = nextRouteKeys, !.sig = nextSignature] IN
          IF nextRouteKeys = {} THEN clearAllLayers(AbortInFlight(stopPolling(l1)))
          ELSE refreshVehicles(startPolling(l1))

\* destroy without the clearAllLayers of line 384
destroy_KeepLayers(l) ==
  IF l.destroyed THEN l
  ELSE [AbortInFlight(stopPolling([l EXCEPT !.destroyed = TRUE])) EXCEPT !.group = FALSE]

destroy(l) ==
  IF l.destroyed THEN l
  ELSE [clearAllLayers(AbortInFlight(stopPolling([l EXCEPT !.destroyed = TRUE])))
          EXCEPT !.group = FALSE]

\* ---- tasks of the live vehicle layer
SetSelectedRouteKeys(routeKeys) ==
  LiveCommit(setSelectedRouteKeysFromState(LiveSt, routeKeys))

\* the interval of startPolling fires (129-131)
PollTick ==
  /\ pollIntervals > 0
  /\ LiveCommit(refreshVehicles(LiveSt))

\* loadLiveVehicles settles: an aborted request rejects; another one
\* resolves with a response or rejects (network error, non-2xx status)
PollSettle(r, ok, vehicles, sources) ==
  /\ r \in polls
  /\ r.aborted => ~ok
  /\ LiveCommit(refreshSettled(LiveSt, r, ok, vehicles, sources))

\* the frame requested by animateVehicleTo runs its step (252-269)
VehicleAnimationFrame(object, done) ==
  /\ object \in vehicleAnimationFrames
  /\ LiveCommit([LiveSt EXCEPT
       !.anim = IF done THEN @ \ {object} ELSE @,
       !.layers = [id \in DOMAIN layersByVehicleId |->
         LET layerState == layersByVehicleId[id] IN
         IF layerState.object # object THEN layerState
         ELSE IF done
           THEN [layerState EXCEPT !.vehicle = layerState.to, !.marker = layerState.to,
                                   !.animationFrame = FALSE, !.from = layerState.to]
         ELSE [layerState EXCEPT !.marker = (layerState.from + layerState.to) \div 2]]])

\* zoomend / moveend: refreshHeadingsForMapMove (109-118)
MapMoveEnd ==
  /\ ~destroyed
  /\ LiveCommit([LiveSt EXCEPT !.layers =
       [id \in DOMAIN layersByVehicleId |->
          [layersByVehicleId[id] EXCEPT !.marker = layersByVehicleId[id].vehicle]]])

Destroy == LiveCommit(destroy(LiveSt))

LiveInit ==
  /\ liveSelectedRouteKeys = {}
  /\ selectedRouteKeySignature = <<>>
  /\ pollTimer = FALSE
  /\ pollIntervals = 0
  /\ inFlightController = NoController
  /\ destroyed = FALSE
  /\ layersByVehicleId = NoLayers
  /\ sourceStatusSignatureByAgency = [a \in Agencies |-> NoSignature]
  /\ polls = {}
  /\ pollsMade = 0
  /\ layerGroupOnMap = TRUE
  /\ lastPoll = "none"
  /\ vehicleMarkersCreated = 0
  /\ vehicleAnimationFrames = {}
  /\ sourceWarnings = [a \in Agencies |-> 0]

PollBound(n) == pollsMade' <= n

NoSample == [fn |-> "none"]

\* ===================================== stop clustering (routeSelectionManager.ts)
\* A stop variant is [routeKey, x, y]: the route and the stop's position in
\* the metres projectToMeters gives, taken as whole metres.
STOP_CLUSTER_MERGE_DISTANCE_METERS == 24

\* the positions the sample stops are drawn from
StopPoints ==
  {<<-25, 0>>, <<-1, 0>>, <<0, 0>>, <<10, 0>>, <<20, 0>>, <<24, 0>>, <<24, 7>>,
   <<40, 0>>, <<100, 0>>}

ClusterRouteKeys == 1..2

StopVariants == {[routeKey |-> k, x |-> p[1], y |-> p[2]] : k \in ClusterRouteKeys, p \in StopPoints}

\* getCellKey of the cell a position falls in (594-595, 152-154)
getCellKey(x, y) ==
  <<x \div STOP_CLUSTER_MERGE_DISTANCE_METERS, y \div STOP_CLUSTER_MERGE_DISTANCE_METERS>>

\* only the cell of the stop itself
NeighborOffsets_OwnCell == << <<0, 0>> >>

\* the order the two offset loops visit the cells in (599-600)
NeighborOffsets ==
  << <<-1, -1>>, <<-1, 0>>, <<-1, 1>>, <<0, -1>>, <<0, 0>>, <<0, 1>>,
     <<1, -1>>, <<1, 0>>, <<1, 1>> >>

GridGet(grid, key) == IF key \in DOMAIN grid THEN grid[key] ELSE <<>>

\* the cluster indexes the loops of 599-613 visit, in order
RECURSIVE NeighborClusters(_, _, _)
NeighborClusters(grid, cell, i) ==
  IF i > Len(NeighborOffsets) THEN <<>>
  ELSE GridGet(grid, <<cell[1] + NeighborOffsets[i][1], cell[2] + NeighborOffsets[i][2]>>)
       \o NeighborClusters(grid, cell, i + 1)

DistanceSq(ax, ay, bx, by) == (ax - bx) * (ax - bx) + (ay - by) * (ay - by)

\* lines 604-612: the last visited cluster among those nearest to the stop
\* and within the merge distance; 0 when there is none
RECURSIVE BestMatch(_, _, _, _, _, _)
BestMatch(clusters, visited, i, v, bestDistanceSq, matchedClusterIndex) ==
  IF i > Len(visited) THEN matchedClusterIndex
  ELSE LET cluster == clusters[visited[i]]
           distanceSq == DistanceSq(v.x, v.y, cluster.anchorX, cluster.anchorY)
       IN IF distanceSq <= bestDistanceSq
          THEN BestMatch(clusters, visited, i + 1, v, distanceSq, visited[i])
          ELSE BestMatch(clusters, visited, i + 1, v, bestDistanceSq, matchedClusterIndex)

\* the body of the loop of clusterStopVariants for one variant (593-644)
ClusterOne(acc, v) ==
  LET cell == getCellKey(v.x, v.y)
      maxDistanceSq == STOP_CLUSTER_MERGE_DISTANCE_METERS * STOP_CLUSTER_MERGE_DISTANCE_METERS
      matched == BestMatch(acc.clusters, NeighborClusters(acc.grid, cell, 1), 1, v, maxDistanceSq, 0)
  IN IF matched > 0
     THEN [acc EXCEPT !.clusters[matched] =
             [@ EXCEPT !.variants = Append(@, v), !.sumX = @ + v.x, !.sumY = @ + v.y,
                       !.stopCount = @ + 1]]
     ELSE LET clusterIndex == Len(acc.clusters) + 1 IN
          [clusters |-> Append(acc.clusters,
                               [anchorX |-> v.x, anchorY |-> v.y, sumX |-> v.x, sumY |-> v.y,
                                stopCount |-> 1, variants |-> <<v>>]),
           grid |-> [key \in DOMAIN acc.grid \cup {cell} |->
                       IF key = cell THEN Append(GridGet(acc.grid, cell), clusterIndex)
                       ELSE acc.grid[key]]]

RECURSIVE ClusterLoop(_, _, _)
ClusterLoop(variants, i, acc) ==
  IF i > Len(variants) THEN acc
  ELSE ClusterLoop(variants, i + 1, ClusterOne(acc, variants[i]))

clusterStopVariants(variants) ==
  ClusterLoop(variants, 1, [clusters |-> <<>>, grid |-> [key \in {} |-> <<>>]]).clusters

\* the distance of a stop from the cluster's centre (sum / stopCount), as the
\* square of stopCount times the distance
CenterDistance(cluster, v) ==
  DistanceSq(cluster.stopCount * v.x, cluster.stopCount * v.y, cluster.sumX, cluster.sumY)

\* the loop of getClusterRouteVariants: byRouteKey maps a route to its entry
RECURSIVE KeepNearest(_, _, _)
KeepNearest(cluster, i, byRouteKey) ==
  IF i > Len(cluster.variants) THEN byRouteKey
  ELSE LET variant == cluster.variants[i]
           distanceMeters == CenterDistance(cluster, variant)
       IN KeepNearest(cluster, i + 1,
            IF variant.routeKey \notin DOMAIN byRouteKey
               \/ distanceMeters < byRouteKey[variant.routeKey].distanceMeters
            THEN [k \in DOMAIN byRouteKey \cup {variant.routeKey} |->
                    IF k = variant.routeKey
                    THEN [variant |-> variant, distanceMeters |-> distanceMeters]
                    ELSE byRouteKey[k]]
            ELSE byRouteKey)

\* getClusterRouteVariants that keeps the first stop of each route
getClusterRouteVariants_First(cluster) ==
  LET first(k) == CHOOSE i \in DOMAIN cluster.variants :
                    /\ cluster.variants[i].routeKey = k
                    /\ \A j \in 1..(i - 1) : cluster.variants[j].routeKey # k
      keys == SortedSeq({cluster.variants[i].routeKey : i \in DOMAIN cluster.variants})
  IN [n \in DOMAIN keys |-> cluster.variants[first(keys[n])]]

\* getClusterRouteVariants (650-666), the centre being that of lines 711-712
getClusterRouteVariants(cluster) ==
  LET byRouteKey == KeepNearest(cluster, 1, [k \in {} |-> 0])
      keys == SortedSeq(DOMAIN byRouteKey)
  IN [n \in DOMAIN keys |-> byRouteKey[keys[n]].variant]

\* lists of at most n variants in compareStopVariants order: by route, the
\* stops of a route in any order
RECURSIVE VariantLists(_)
VariantLists(n) ==
  IF n = 0 THEN {<<>>}
  ELSE LET shorter == VariantLists(n - 1) IN
       shorter \cup {Append(l, v) : l \in {s \in shorter : Len(s) = n - 1}, v \in StopVariants}

SortedByRoute(l) == \A i \in 1..(Len(l) - 1) : l[i].routeKey <= l[i + 1].routeKey

\* rebuildStopClusters (704-714) applied to the sample variants
ClusterSample ==
  /\ sample.fn = "variants"
  /\ LET clusters == clusterStopVariants(sample.variants) IN
     sample' = [fn |-> "clusters", variants |-> sample.variants, clusters |-> clusters,
                views |-> [c \in DOMAIN clusters |-> getClusterRouteVariants(clusters[c])]]
  /\ UNCHANGED <<mgrVars, areaVars, popupVars, liveVars, backend>>

\* ---- bearings (liveVehicleLayerManager.ts 37-54)
\* A bearing is a number of degrees or null. Progress is p / ProgressSteps
\* with p in 0..ProgressSteps; a value that depends on progress is held as its
\* numerator over ProgressSteps, which is exact for these binary fractions.
NoBearing == -1
Bearings == 0..359
ProgressSteps == 2 ^ MaxProgressBits

\* normalizeBearing (39) on a numerator over ProgressSteps. The value is a
\* finite number: interpolateBearing returns at 48-50 when a bearing is null.
normalizeBearing(value) ==
  JsRem(JsRem(value, 360 * ProgressSteps) + 360 * ProgressSteps, 360 * ProgressSteps)

\* the delta taken as the plain difference of the two bearings
BearingDelta_Direct(startBearing, endBearing) == endBearing - startBearing

\* the delta normalised into (-180, 180]
BearingDelta_UpperClosed(startBearing, endBearing) ==
  180 - JsRem(JsRem(startBearing - endBearing, 360) + 540, 360)

\* line 52
BearingDelta(startBearing, endBearing) ==
  JsRem(JsRem(endBearing - startBearing, 360) + 540, 360) - 180

\* interpolateBearing at progress p / ProgressSteps; the result is a numerator
\* over ProgressSteps, or NoBearing
interpolateBearing(startBearing, endBearing, p) ==
  IF startBearing = NoBearing /\ endBearing = NoBearing THEN NoBearing
  ELSE IF startBearing = NoBearing
    THEN (IF p < ProgressSteps THEN NoBearing ELSE endBearing * ProgressSteps)
  ELSE IF endBearing = NoBearing
    THEN (IF p < ProgressSteps THEN startBearing * ProgressSteps ELSE NoBearing)
  ELSE normalizeBearing(startBearing * ProgressSteps
                        + BearingDelta(startBearing, endBearing) * p)

\* one step of animateVehicleTo (257) on the sample bearings
BearingSample(p) ==
  /\ sample.fn = "bearings"
  /\ sample' = [fn |-> "interpolated", startBearing |-> sample.startBearing,
                endBearing |-> sample.endBearing, p |-> p,
                delta |-> IF sample.startBearing = NoBearing \/ sample.endBearing = NoBearing
                            THEN 0
                            ELSE BearingDelta(sample.startBearing, sample.endBearing),
                bearing |-> interpolateBearing(sample.startBearing, sample.endBearing, p)]
  /\ UNCHANGED <<mgrVars, areaVars, popupVars, liveVars, backend>>

\* ---- GTFS times (time.ts: parseGtfsSeconds 4-10, formatGtfsTime 12-29)
\* A string is the sequence of its characters.
DigitChars == <<"0", "1", "2", "3", "4", "5", "6", "7", "8", "9">>
IsDigit(c) == \E d \in 1..10 : DigitChars[d] = c
DigitValue(c) == (CHOOSE d \in 1..10 : DigitChars[d] = c) - 1
NaN == -1

\* String(n) of a natural number
RECURSIVE NumberToString(_)
NumberToString(n) == IF n < 10 THEN <<DigitChars[n + 1]>>
               ELSE NumberToString(n \div 10) \o <<DigitChars[(n % 10) + 1]>>

\* str.padStart(targetLength, "0")
RECURSIVE padStart(_, _)
padStart(str, targetLength) ==
  IF Len(str) >= targetLength THEN str ELSE padStart(<<"0">> \o str, targetLength)

\* str.split(":")
RECURSIVE SplitFrom(_, _, _)
SplitFrom(str, i, current) ==
  IF i > Len(str) THEN <<current>>
  ELSE IF str[i] = ":" THEN <<current>> \o SplitFrom(str, i + 1, <<>>)
  ELSE SplitFrom(str, i + 1, Append(current, str[i]))

split(str) == SplitFrom(str, 1, <<>>)

\* Number.parseInt(segment, 10) on unsigned text: the value of the leading
\* digits, NaN when there is none
RECURSIVE ParseDigits(_, _, _)
ParseDigits(segment, i, value) ==
  IF i > Len(segment) \/ ~IsDigit(segment[i]) THEN value
  ELSE ParseDigits(segment, i + 1, value * 10 + DigitValue(segment[i]))

parseInt(segment) ==
  IF segment = <<>> \/ ~IsDigit(segment[1]) THEN NaN ELSE ParseDigits(segment, 1, 0)

parseGtfsSeconds(rawTime) ==
  LET segments == split(rawTime)
      parts == [i \in DOMAIN segments |-> parseInt(segments[i])]
  IN IF Len(parts) < 3 THEN NaN
     ELSE IF \E i \in 1..3 : parts[i] = NaN THEN NaN
     ELSE parts[1] * 3600 + parts[2] * 60 + parts[3]

\* the 12-hour clock without the 12 o'clock case
Hours12_NoTwelve(hours24) == hours24 % 12

\* line 22
Hours12(hours24) == IF hours24 % 12 = 0 THEN 12 ELSE hours24 % 12

formatGtfsTime(rawTime) ==
  LET totalSeconds == parseGtfsSeconds(rawTime) IN
  IF totalSeconds = NaN THEN rawTime
  ELSE
    LET overflowDays == totalSeconds \div 86400
        secondOfDay == totalSeconds % 86400
        hours24 == secondOfDay \div 3600
        minutes == (secondOfDay % 3600) \div 60
        period == IF hours24 >= 12 THEN <<"P", "M">> ELSE <<"A", "M">>
        base == NumberToString(Hours12(hours24)) \o <<":">> \o padStart(NumberToString(minutes), 2)
                  \o <<" ">> \o period
    IN IF overflowDays > 0
         THEN base \o <<" ", "(", "+">> \o NumberToString(overflowDays) \o <<")">>
         ELSE base

\* raw times as the feeds write them: the hour with or without a leading
\* zero, minutes and seconds with two digits
RawTimeOf(h, m, s, padded) ==
  (IF padded THEN padStart(NumberToString(h), 2) ELSE NumberToString(h))
    \o <<":">> \o padStart(NumberToString(m), 2) \o <<":">> \o padStart(NumberToString(s), 2)

SampleSeconds == {0, 30, 59}

\* texts that are not a time
UnparsableTimes == {<<>>, <<"x">>, <<"0", "8", ":", "1", "5">>,
                    <<"0", "8", ":", "x", "x", ":", "0", "0">>}

\* ---- findNextArrival (time.ts 40-77). An instant is the number of seconds
\* since the midnight that starts today, in local time without a clock change.
JS_DAY_TO_KEY ==
  <<"sunday", "monday", "tuesday", "wednesday", "thursday", "friday", "saturday">>

NoArrival == [token |-> <<>>]

\* the replacement test that always replaces
Better_Last(best, candidate) == TRUE

\* line 65
Better(best, candidate) == best = NoArrival \/ candidate < best.when

\* the body of the loop over the times of one day (49-73)
NextArrivalOfTime(best, baseDate, dayKey, rawTime, now) ==
  LET totalSeconds == parseGtfsSeconds(rawTime) IN
  IF totalSeconds = NaN THEN best
  ELSE
    LET extraDays == totalSeconds \div 86400
        secondOfDay == totalSeconds % 86400
        candidate == baseDate + extraDays * 86400 + (secondOfDay \div 3600) * 3600
                       + ((secondOfDay % 3600) \div 60) * 60 + (secondOfDay % 60)
    IN IF candidate < now THEN best
       ELSE IF Better(best, candidate)
         THEN [when |-> candidate, token |-> <<dayKey, ":">> \o rawTime,
               dayKey |-> dayKey, rawTime |-> rawTime]
       ELSE best

RECURSIVE NextArrivalOfDay(_, _, _, _, _, _)
NextArrivalOfDay(best, baseDate, dayKey, times, i, now) ==
  IF i > Len(times) THEN best
  ELSE NextArrivalOfDay(NextArrivalOfTime(best, baseDate, dayKey, times[i], now),
                        baseDate, dayKey, times, i + 1, now)

\* the loop over the day offsets (44-74); today is now.getDay()
RECURSIVE NextArrivalFrom(_, _, _, _, _)
NextArrivalFrom(best, dayOffset, daySchedules, today, now) ==
  IF dayOffset > 8 THEN best
  ELSE LET dayKey == JS_DAY_TO_KEY[((today + dayOffset) % 7) + 1] IN
       NextArrivalFrom(NextArrivalOfDay(best, dayOffset * 86400, dayKey,
                                        daySchedules[dayKey], 1, now),
                       dayOffset + 1, daySchedules, today, now)

findNextArrival(daySchedules, today, now) ==
  NextArrivalFrom(NoArrival, 0, daySchedules, today, now)

\* sample departures, day schedules and instants
SampleDayKeys == {"sunday", "monday", "saturday"}
SampleClockTimes == {<<0, 0, 0>>, <<8, 15, 0>>, <<17, 45, 0>>, <<24, 0, 0>>, <<25, 5, 0>>}
SampleDepartures ==
  {[dayKey |-> d, h |-> c[1], m |-> c[2], s |-> c[3],
    rawTime |-> RawTimeOf(c[1], c[2], c[3], TRUE)] : d \in SampleDayKeys, c \in SampleClockTimes}
  \cup {[dayKey |-> d, h |-> NaN, m |-> NaN, s |-> NaN, rawTime |-> <<"x">>] : d \in SampleDayKeys}
SampleTodays == {0, 1, 6}
SampleNows == {0, 28800, 29700, 29701, 86399}

\* the day schedules holding the departures, each day's in the order given
DaySchedulesOf(departures) ==
  [dayKey \in {JS_DAY_TO_KEY[i] : i \in 1..7} |->
     LET own == SelectSeq(departures, LAMBDA d : d.dayKey = dayKey)
     IN [i \in DOMAIN own |-> own[i].rawTime]]

NextArrivalSample ==
  /\ sample.fn = "departures"
  /\ sample' = [sample EXCEPT !.fn = "nextArrival"] @@
                  [next |-> findNextArrival(DaySchedulesOf(sample.departures),
                                            sample.today, sample.now)]
  /\ UNCHANGED <<mgrVars, areaVars, popupVars, liveVars, backend>>

\* an activation of a panel of a sample popup
PanelSample ==
  /\ sample.fn = "panels"
  /\ sample' = [fn |-> "activated", before |-> sample.panels, index |-> sample.index,
                result |-> setActivePanelByIndex(sample.panels, sample.index)]
  /\ UNCHANGED <<mgrVars, areaVars, popupVars, liveVars, backend>>

FormatSample ==
  /\ sample.fn = "rawTime"
  /\ sample' = [sample EXCEPT !.fn = "formatted"] @@ [text |-> formatGtfsTime(sample.rawTime)]
  /\ UNCHANGED <<mgrVars, areaVars, popupVars, liveVars, backend>>

\* ---- the live-vehicles endpoint (api/live-vehicles: handler 380-410)
\* A route key is the sequence <<agency, ":", route id ...>>; " " is a blank.
RECURSIVE TrimStart(_)
TrimStart(str) == IF str # <<>> /\ Head(str) = " " THEN TrimStart(Tail(str)) ELSE str

RECURSIVE TrimEnd(_)
TrimEnd(str) ==
  IF str # <<>> /\ str[Len(str)] = " " THEN TrimEnd(SubSeq(str, 1, Len(str) - 1)) ELSE str

trim(str) == TrimEnd(TrimStart(str))

\* getRouteKeys (38-50) on an array of strings
RECURSIVE getRouteKeys(_)
getRouteKeys(input) ==
  IF input = <<>> THEN <<>>
  ELSE LET unique == getRouteKeys(SubSeq(input, 1, Len(input) - 1))
           normalized == trim(input[Len(input)])
       IN IF normalized = <<>> \/ (\E i \in DOMAIN unique : unique[i] = normalized)
            THEN unique ELSE Append(unique, normalized)

\* extractAgencyRouteIds (52-62)
RECURSIVE extractAgencyRouteIds(_, _)
extractAgencyRouteIds(routeKeys, agencyId) ==
  IF routeKeys = <<>> THEN <<>>
  ELSE LET ids == extractAgencyRouteIds(SubSeq(routeKeys, 1, Len(routeKeys) - 1), agencyId)
           routeKey == routeKeys[Len(routeKeys)]
           startsWith == Len(routeKey) >= 2 /\ SubSeq(routeKey, 1, 2) = <<agencyId, ":">>
           routeId == IF startsWith THEN trim(SubSeq(routeKey, 3, Len(routeKey))) ELSE <<>>
       IN IF ~startsWith \/ routeId = <<>> THEN ids ELSE Append(ids, routeId)

\* What an upstream feed does with a request: it fails in one of four ways or
\* delivers entries. An entry is usable when it passes the loader's tests of
\* position, age and, for TripShot, live data and ride.
FeedFailures == {"networkError", "timeout", "non2xx", "undecodable"}
PrincetonEntries == << [vehicleId |-> "p1", routeId |-> <<"1">>, usable |-> TRUE],
                       [vehicleId |-> "p2", routeId |-> <<"1">>, usable |-> FALSE] >>
NjtEntries == << [vehicleId |-> "n1", routeId |-> <<"1">>, usable |-> TRUE],
                 [vehicleId |-> "n2", routeId |-> <<"2">>, usable |-> TRUE] >>
FeedOutcomes(entries) ==
  {[kind |-> k, entries |-> <<>>] : k \in FeedFailures}
  \cup {[kind |-> "ok", entries |-> SubSeq(entries, 1, n)] : n \in 0..Len(entries)}

SkippedResult(agencyId) ==
  [vehicles |-> <<>>, source |-> [agencyId |-> agencyId, status |-> "skipped", vehicleCount |-> 0]]

\* the results of the !response.ok and catch branches
ErrorResult(agencyId) ==
  [vehicles |-> <<>>, source |-> [agencyId |-> agencyId, status |-> "error", vehicleCount |-> 0]]

\* the normalizedVehicles loops (194-231, 306-355)
NormalizedVehicles(agencyId, entries, selectedRouteIds) ==
  LET kept == SelectSeq(entries, LAMBDA e :
                e.usable /\ \E i \in DOMAIN selectedRouteIds : selectedRouteIds[i] = e.routeId)
  IN [i \in DOMAIN kept |->
        [id |-> <<agencyId, ":", kept[i].vehicleId>>, agencyId |-> agencyId,
         routeKey |-> <<agencyId, ":">> \o kept[i].routeId, vehicleId |-> kept[i].vehicleId]]

OkResult(agencyId, entries, selectedRouteIds) ==
  LET normalizedVehicles == NormalizedVehicles(agencyId, entries, selectedRouteIds) IN
  [vehicles |-> normalizedVehicles,
   source |-> [agencyId |-> agencyId, status |-> "ok",
               vehicleCount |-> Len(normalizedVehicles)]]

\* loadPrincetonVehicles (150-252) once the feed has done outcome
loadPrincetonVehicles(selectedRouteIds, outcome) ==
  IF selectedRouteIds = <<>> THEN SkippedResult("princeton")
  ELSE IF outcome.kind = "ok" THEN OkResult("princeton", outcome.entries, selectedRouteIds)
  ELSE ErrorResult("princeton")

\* loadNjtVehicles (258-378) once the feed has done outcome
loadNjtVehicles(selectedRouteIds, apiKey, outcome) ==
  IF selectedRouteIds = <<>> THEN SkippedResult("njt")
  ELSE IF ~apiKey
    THEN [vehicles |-> <<>>,
          source |-> [agencyId |-> "njt", status |-> "unavailable", vehicleCount |-> 0]]
  ELSE IF outcome.kind = "ok" THEN OkResult("njt", outcome.entries, selectedRouteIds)
  ELSE ErrorResult("njt")

NoRequest == [phase |-> "idle"]
Pending == [source |-> [status |-> "pending"]]
NoOutcome == [kind |-> "none", entries |-> <<>>]

\* the answer that leaves out every vehicle when a source is not ok
ResponseVehicles_AllOrNothing(princetonResult, njtResult) ==
  IF princetonResult.source.status = "error" \/ njtResult.source.status \in {"error", "unavailable"}
    THEN <<>> ELSE princetonResult.vehicles \o njtResult.vehicles

\* line 407
ResponseVehicles(princetonResult, njtResult) == princetonResult.vehicles \o njtResult.vehicles

\* handler, to the await of Promise.all (380-402). The loaders that return
\* without a fetch have their result at once.
HandleRequest(method, input, apiKey) ==
  /\ backend = NoRequest
  /\ LET routeKeys == getRouteKeys(input)
         princetonRouteIds == extractAgencyRouteIds(routeKeys, "princeton")
         njtRouteIds == extractAgencyRouteIds(routeKeys, "njt")
         request == [method |-> method, input |-> input, apiKey |-> apiKey,
                     routeKeys |-> routeKeys, princetonFeed |-> NoOutcome,
                     njtFeed |-> NoOutcome]
     IN backend' =
          IF method # "POST"
            THEN [phase |-> "responded", statusCode |-> 405, vehicles |-> <<>>,
                  sources |-> <<>>] @@ request
          ELSE IF routeKeys = <<>>
            THEN [phase |-> "responded", statusCode |-> 200, vehicles |-> <<>>,
                  sources |-> <<>>] @@ request
          ELSE [phase |-> "awaiting",
                princetonResult |-> IF princetonRouteIds = <<>>
                                      THEN loadPrincetonVehicles(princetonRouteIds, NoOutcome)
                                      ELSE Pending,
                njtResult |-> IF njtRouteIds = <<>> \/ ~apiKey
                                THEN loadNjtVehicles(njtRouteIds, apiKey, NoOutcome)
                                ELSE Pending] @@ request
  /\ UNCHANGED <<mgrVars, areaVars, popupVars, liveVars, sample>>

\* the TripShot request ends: loadPrincetonVehicles settles
PrincetonFeedSettle(outcome) ==
  /\ backend.phase = "awaiting"
  /\ backend.princetonResult = Pending
  /\ backend' = [backend EXCEPT
                   !.princetonFeed = outcome,
                   !.princetonResult = loadPrincetonVehicles(
                      extractAgencyRouteIds(backend.routeKeys, "princeton"), outcome)]
  /\ UNCHANGED <<mgrVars, areaVars, popupVars, liveVars, sample>>

\* the NJT request ends: loadNjtVehicles settles
NjtFeedSettle(outcome) ==
  /\ backend.phase = "awaiting"
  /\ backend.njtResult = Pending
  /\ backend' = [backend EXCEPT
                   !.njtFeed = outcome,
                   !.njtResult = loadNjtVehicles(
                      extractAgencyRouteIds(backend.routeKeys, "njt"), backend.apiKey, outcome)]
  /\ UNCHANGED <<mgrVars, areaVars, popupVars, liveVars, sample>>

\* handler after Promise.all (399-409)
HandlerRespond ==
  /\ backend.phase = "awaiting"
  /\ backend.princetonResult # Pending
  /\ backend.njtResult # Pending
  /\ backend' = [phase |-> "responded", statusCode |-> 200,
                 vehicles |-> ResponseVehicles(backend.princetonResult, backend.njtResult),
                 sources |-> <<backend.princetonResult.source, backend.njtResult.source>>]
                @@ backend
  /\ UNCHANGED <<mgrVars, areaVars, popupVars, liveVars, sample>>

\* ============================================================ specifications
RECURSIVE SumOver(_, _)
SumOver(f, S) ==
  IF S = {} THEN 0
  ELSE LET x == CHOOSE x \in S : TRUE IN f[x] + SumOver(f, S \ {x})

FetchesIssued == SumOver(fetchCount, RouteKeys)

\* the counters of a behaviour stay within the bounds given
FetchBound(n) == FetchesIssued' <= n

CallBound(n) == Len(calls') <= n

ScheduleBound(fetchesIssued, callers) ==
  \A k \in RouteKeys : /\ scheduleStateByKey'[k].fetchCount <= fetchesIssued
                        /\ scheduleStateByKey'[k].awaiting <= callers

ActivationBound(n) == previewActivationSequence' <= n

TokenBound(n) ==
  \A site \in DOMAIN stopClusterLayers' : stopClusterLayers'[site].popupRequestToken <= n

\* F: the routes that need a schedule file
InitRoutesWith(R, F) ==
  /\ routeStateByKey = [k \in R |-> [selected |-> FALSE, layer |-> 0, routeData |-> 0, loadPromise |-> 0]]
  /\ selectedRouteKeys = <<>>
  /\ mapLayers = {}
  /\ shapeFilter = [k \in R |-> NoDir]
  /\ layerGroupsBuilt = [k \in R |-> 0]
  /\ fetchCount = [k \in R |-> 0]
  /\ fetches = {}
  /\ scheduleStateByKey = [k \in R |-> NoSchedule(k \in F)]
  /\ scheduleFetches = {}
  /\ calls = <<>>
  /\ batch = IdleBatch
  /\ statusText = <<>>
  /\ previewHoverCountsByRouteKey = [k \in R |-> 0]
  /\ previewActivationOrderByRouteKey = [k \in R |-> -1]
  /\ previewDirectionByRouteKey = [k \in R |-> NoDir]
  /\ activePreviewRouteKey = NoRoute
  /\ previewActivationSequence = 0
  /\ stopClusterRebuildFrame = FALSE
  /\ animationFramesRequested = 0
  /\ areaSelectionInProgress = FALSE
  /\ areaWork = IdleArea

InitRoutes(R) == InitRoutesWith(R, {})

\* every route of R has been loaded and built once; those of S are selected
\* and shown, the others were deselected again
InitLoaded(R, S) ==
  /\ routeStateByKey = [k \in R |-> [selected |-> k \in S, layer |-> 1, routeData |-> 1, loadPromise |-> 0]]
  /\ selectedRouteKeys = SortedSeq(S)
  /\ mapLayers = {<<k, 1>> : k \in S}
  /\ shapeFilter = [k \in R |-> NoDir]
  /\ layerGroupsBuilt = [k \in R |-> 1]
  /\ fetchCount = [k \in R |-> 1]
  /\ fetches = {}
  /\ scheduleStateByKey = [k \in R |-> NoSchedule(FALSE)]
  /\ scheduleFetches = {}
  /\ calls = <<>>
  /\ batch = IdleBatch
  /\ statusText = <<>>
  /\ previewHoverCountsByRouteKey = [k \in R |-> 0]
  /\ previewActivationOrderByRouteKey = [k \in R |-> -1]
  /\ previewDirectionByRouteKey = [k \in R |-> NoDir]
  /\ activePreviewRouteKey = NoRoute
  /\ previewActivationSequence = 0
  /\ stopClusterRebuildFrame = FALSE
  /\ animationFramesRequested = 0
  /\ areaSelectionInProgress = FALSE
  /\ areaWork = IdleArea

InitSites(S) ==
  /\ stopClusterLayers = [site \in S |-> NoCluster(site)]

vars == <<mgrVars, areaVars, popupVars, liveVars, sample, backend>>

\* ---- the whole selection system: route toggles and the area filter
Init ==
  /\ InitRoutes(1..2)
  /\ InitSites({})
  /\ hoverCapable = FALSE
  /\ LiveInit
  /\ backend = NoRequest
  /\ sample = NoSample

Next ==
  /\ \/ \E k \in RouteKeys : SelectRoute(k)
     \/ \E k \in RouteKeys : DeselectRoute(k)
     \/ \E f \in fetches, success \in BOOLEAN : FetchSettle(f, success)
     \/ \E i \in DOMAIN calls : Continue(i)
     \/ AreaContinue
     \/ \E c \in SUBSET RouteKeys : \E h \in SUBSET c : applyAreaFilter(c, h)
     \/ clearAreaFilter
     \/ RebuildFrame
  /\ FetchBound(MaxFetches)
  /\ CallBound(MaxCalls)

Spec == Init /\ [][Next]_vars

\* ---- the selection manager with the stop cluster popups
HoverInit ==
  /\ InitRoutes(1..2)
  /\ InitSites({1})
  /\ hoverCapable \in BOOLEAN
  /\ LiveInit
  /\ backend = NoRequest
  /\ sample = NoSample

HoverNext ==
  /\ \/ \E k \in RouteKeys : SelectRoute(k)
     \/ \E k \in RouteKeys : DeselectRoute(k)
     \/ \E f \in fetches, success \in BOOLEAN : FetchSettle(f, success)
     \/ \E i \in DOMAIN calls : Continue(i)
     \/ RebuildFrame
     \/ \E site \in Sites : MarkerMouseover(site)
     \/ \E site \in Sites : MarkerClick(site)
     \/ \E site \in Sites : PopupClosed(site)
     \/ \E site \in Sites, t \in 1..MaxHoverTokens, success \in BOOLEAN : ContentSettle(site, t, success)
     \/ \E site \in Sites, delta \in {-1, 1} : RouteNavClick(site, delta)
     \/ \E site \in Sites : DirectionSwitchClick(site)
  /\ FetchBound(MaxFetches)
  /\ CallBound(MaxHoverCalls)
  /\ ActivationBound(MaxHoverActivations)
  /\ TokenBound(MaxHoverTokens)

SpecHover == HoverInit /\ [][HoverNext]_vars

\* ---- single and batch selection through the manager's two entry points
BatchInit ==
  /\ InitRoutes(1..3)
  /\ InitSites({})
  /\ hoverCapable = FALSE
  /\ LiveInit
  /\ backend = NoRequest
  /\ sample = NoSample

BatchNext ==
  /\ \/ \E k \in RouteKeys : SelectRoute(k)
     \/ \E keys \in SUBSET RouteKeys, selected \in BOOLEAN, c \in 1..MaxConcurrency :
          keys # {} /\ SetRouteKeys(keys, selected, c)
     \/ \E f \in fetches, success \in BOOLEAN : FetchSettle(f, success)
     \/ \E i \in DOMAIN calls : Continue(i)
     \/ RebuildFrame
  /\ FetchBound(MaxBatchFetches)
  /\ CallBound(MaxBatchCalls)

SpecBatch == BatchInit /\ [][BatchNext]_vars

\* ---- one batch with any concurrency option the caller can pass, zero
\* included, over routes not yet loaded or over routes loaded and selected.
\* Every fetch settles and every continuation of a settled promise runs.
BatchAnyInit ==
  /\ InitRoutes(1..3) \/ InitLoaded(1..3, 1..3)
  /\ InitSites({})
  /\ hoverCapable = FALSE
  /\ LiveInit
  /\ backend = NoRequest
  /\ sample \in {[fn |-> "batch", keys |-> SortedSeq(keys), selected |-> selected,
                   concurrency |-> c] :
                  keys \in SUBSET (1..3) \ {{}}, selected \in BOOLEAN, c \in 0..MaxConcurrency}

BatchAnyNext ==
  \/ BatchCall
  \/ \E f \in fetches, success \in BOOLEAN : FetchSettle(f, success)
  \/ \E i \in DOMAIN calls : Continue(i)
  \/ RebuildFrame

SpecBatchAny ==
  /\ BatchAnyInit /\ [][BatchAnyNext]_vars
  /\ WF_vars(BatchCall)
  /\ WF_vars(\E f \in fetches, success \in BOOLEAN : FetchSettle(f, success))
  /\ WF_vars(\E i \in DOMAIN calls : Continue(i))

\* ---- the area filter by itself: no route is toggled while it works, and
\* every fetch settles and every continuation runs
AreaOnlyInit ==
  /\ InitRoutes(1..2) \/ \E S \in SUBSET (1..2) : InitLoaded(1..2, S)
  /\ InitSites({})
  /\ hoverCapable = FALSE
  /\ LiveInit
  /\ backend = NoRequest
  /\ sample = NoSample

AreaOnlyNext ==
  \/ /\ FetchesIssued < MaxAreaFetches
     /\ \E c \in SUBSET RouteKeys : \E h \in SUBSET c : applyAreaFilter(c, h)
  \/ clearAreaFilter
  \/ \E f \in fetches, success \in BOOLEAN : FetchSettle(f, success)
  \/ \E i \in DOMAIN calls : Continue(i)
  \/ AreaContinue
  \/ RebuildFrame

SpecAreaOnly ==
  /\ AreaOnlyInit /\ [][AreaOnlyNext]_vars
  /\ WF_vars(\E f \in fetches, success \in BOOLEAN : FetchSettle(f, success))
  /\ WF_vars(\E i \in DOMAIN calls : Continue(i))
  /\ WF_vars(AreaContinue)

\* ---- preview arbitration: the calls the cluster callbacks make on the
\* manager, over routes whose geometry is loaded
PreviewInit ==
  /\ InitLoaded(1..3, {})
  /\ InitSites({})
  /\ hoverCapable = FALSE
  /\ LiveInit
  /\ backend = NoRequest
  /\ sample = NoSample

PreviewNext ==
  /\ \/ \E k \in RouteKeys : SelectRoute(k)
     \/ \E k \in RouteKeys : DeselectRoute(k)
     \/ \E i \in DOMAIN calls : Continue(i)
     \/ \E k \in RouteKeys, d \in DirKeys \cup {NoDir} : StartPreview(k, d)
     \/ \E k \in RouteKeys, d \in DirKeys \cup {NoDir} : SetPreviewDirection(k, d)
     \/ \E k \in RouteKeys : EndPreview(k)
     \/ RebuildFrame
  /\ CallBound(MaxBatchCalls)
  /\ ActivationBound(MaxActivations)

SpecPreview == PreviewInit /\ [][PreviewNext]_vars

\* ---- the popup of one cluster over two selected, loaded routes
PopupInit ==
  /\ InitLoaded(1..2, {1, 2})
  /\ stopClusterLayers = [site \in {1} |-> NewCluster(St, site)]
  /\ hoverCapable \in BOOLEAN
  /\ LiveInit
  /\ backend = NoRequest
  /\ sample = NoSample

PopupNext ==
  /\ \/ \E site \in Sites : MarkerMouseover(site)
     \/ \E site \in Sites : MarkerMouseout(site)
     \/ \E site \in Sites : MarkerClick(site)
     \/ \E site \in Sites : CloseTimerFires(site)
     \/ \E site \in Sites : PopupMouseenter(site)
     \/ \E site \in Sites : PopupMouseleave(site)
     \/ \E site \in Sites : PopupClosed(site)
     \/ \E site \in Sites, t \in 1..MaxTokens, success \in BOOLEAN : ContentSettle(site, t, success)
     \/ \E k \in RouteKeys : DeselectRoute(k)
     \/ RebuildFrame
  /\ ActivationBound(MaxActivations)
  /\ TokenBound(MaxTokens)

SpecPopup == PopupInit /\ [][PopupNext]_vars

\* ---- the live vehicle layer manager
LiveVehiclesInit ==
  /\ InitRoutes({})
  /\ InitSites({})
  /\ hoverCapable = FALSE
  /\ LiveInit
  /\ backend = NoRequest
  /\ sample = NoSample

LiveVehiclesNext ==
  /\ \/ \E routeKeys \in SUBSET LiveRouteKeys : SetSelectedRouteKeys(routeKeys)
     \/ PollTick
     \/ \E r \in polls :
          \E ids \in SUBSET VehicleIds, as \in SUBSET Agencies :
            \E vehicles \in [ids -> Positions], sources \in [as -> SourceStatuses] :
              PollSettle(r, TRUE, vehicles, sources)
     \/ \E r \in polls : PollSettle(r, FALSE, NoLayers, NoLayers)
     \/ \E object \in vehicleAnimationFrames, done \in BOOLEAN :
          VehicleAnimationFrame(object, done)
     \/ MapMoveEnd
     \/ Destroy
  /\ PollBound(MaxPolls)

SpecLive == LiveVehiclesInit /\ [][LiveVehiclesNext]_vars

\* ---- the vehicle markers over successive responses: long enough for a
\* marker to be made, set moving and removed
VehicleDiffNext ==
  /\ \/ \E routeKeys \in SUBSET LiveRouteKeys : SetSelectedRouteKeys(routeKeys)
     \/ PollTick
     \/ \E r \in polls :
          \E ids \in SUBSET VehicleIds :
            \E vehicles \in [ids -> Positions] : PollSettle(r, TRUE, vehicles, NoLayers)
     \/ \E object \in vehicleAnimationFrames, done \in BOOLEAN :
          VehicleAnimationFrame(object, done)
  /\ PollBound(MaxVehiclePolls)

SpecVehicleDiff == LiveVehiclesInit /\ [][VehicleDiffNext]_vars

\* ---- the source statuses over successive responses: long enough for a
\* status to be reported, repeated and changed
SourceStatusNext ==
  /\ \/ \E routeKeys \in {{}, {<<"njt", 1>>}} : SetSelectedRouteKeys(routeKeys)
     \/ PollTick
     \/ \E r \in polls :
          \E as \in SUBSET Agencies :
            \E sources \in [as -> SourceReports] : PollSettle(r, TRUE, NoLayers, sources)
     \/ \E r \in polls : PollSettle(r, FALSE, NoLayers, NoLayers)
  /\ PollBound(MaxStatusPolls)

SpecSourceStatus == LiveVehiclesInit /\ [][SourceStatusNext]_vars

\* ---- stop clustering applied to sample lists of stop variants
ClusterInit ==
  /\ InitRoutes({})
  /\ InitSites({})
  /\ hoverCapable = FALSE
  /\ LiveInit
  /\ backend = NoRequest
  /\ sample \in {[fn |-> "variants", variants |-> l] :
                  l \in {s \in VariantLists(MaxVariants) : SortedByRoute(s)}}

ClusterNext == ClusterSample

SpecCluster == ClusterInit /\ [][ClusterNext]_vars

\* ---- interpolateBearing on every pair of whole-degree or missing bearings
BearingInit ==
  /\ InitRoutes({})
  /\ InitSites({})
  /\ hoverCapable = FALSE
  /\ LiveInit
  /\ backend = NoRequest
  /\ sample \in {[fn |-> "bearings", startBearing |-> s, endBearing |-> e] :
                  s \in Bearings \cup {NoBearing}, e \in Bearings \cup {NoBearing}}

BearingNext == \E p \in 0..ProgressSteps : BearingSample(p)

SpecBearing == BearingInit /\ [][BearingNext]_vars

\* ---- formatGtfsTime on raw times up to MaxHour hours and on other text
TimeInit ==
  /\ InitRoutes({})
  /\ InitSites({})
  /\ hoverCapable = FALSE
  /\ LiveInit
  /\ backend = NoRequest
  /\ sample \in
       {[fn |-> "rawTime", h |-> h, m |-> m, s |-> s, rawTime |-> RawTimeOf(h, m, s, padded)] :
          h \in 0..MaxHour, m \in 0..59, s \in SampleSeconds, padded \in BOOLEAN}
       \cup {[fn |-> "rawTime", h |-> NaN, m |-> NaN, s |-> NaN, rawTime |-> u] :
               u \in UnparsableTimes}

TimeNext == FormatSample

SpecTime == TimeInit /\ [][TimeNext]_vars

\* ---- findNextArrival on day schedules of up to MaxTimes departures
NextArrivalInit ==
  /\ InitRoutes({})
  /\ InitSites({})
  /\ hoverCapable = FALSE
  /\ LiveInit
  /\ backend = NoRequest
  /\ sample \in {[fn |-> "departures", departures |-> l, today |-> today, now |-> now] :
                  l \in UNION {[1..n -> SampleDepartures] : n \in 0..MaxTimes},
                  today \in SampleTodays, now \in SampleNows}

NextArrivalNext == NextArrivalSample

SpecNextArrival == NextArrivalInit /\ [][NextArrivalNext]_vars

\* ---- one request to the live-vehicles endpoint
RouteKeyTexts == {<<"princeton", ":", "1">>, <<"njt", ":", "1">>, <<"njt", ":", "1", " ">>,
                  <<"njt", ":", "2">>, <<"other", ":", "9">>, <<" ">>}

BackendInit ==
  /\ InitRoutes({})
  /\ InitSites({})
  /\ hoverCapable = FALSE
  /\ LiveInit
  /\ sample = NoSample
  /\ backend = NoRequest

BackendNext ==
  \/ \E method \in {"POST", "GET"}, apiKey \in BOOLEAN,
        input \in UNION {[1..n -> RouteKeyTexts] : n \in 0..MaxRouteKeys} :
        HandleRequest(method, input, apiKey)
  \/ \E outcome \in FeedOutcomes(PrincetonEntries) : PrincetonFeedSettle(outcome)
  \/ \E outcome \in FeedOutcomes(NjtEntries) : NjtFeedSettle(outcome)
  \/ HandlerRespond

SpecBackend == BackendInit /\ [][BackendNext]_vars

\* ---- geometry and schedule loads of routes that have a schedule file
ScheduleInit ==
  /\ InitRoutesWith(1..2, {1, 2})
  /\ InitSites({})
  /\ hoverCapable = FALSE
  /\ LiveInit
  /\ backend = NoRequest
  /\ sample = NoSample

ScheduleNext ==
  /\ \/ \E k \in RouteKeys : SelectRoute(k)
     \/ \E k \in RouteKeys : DeselectRoute(k)
     \/ \E f \in fetches, success \in BOOLEAN : FetchSettle(f, success)
     \/ \E i \in DOMAIN calls : Continue(i)
     \/ \E f \in scheduleFetches, success \in BOOLEAN : ScheduleFetchSettle(f, success)
     \/ \E k \in RouteKeys : BuildClusterRouteView(k)
  /\ FetchBound(MaxFetches)
  /\ CallBound(MaxCalls)
  /\ ScheduleBound(MaxScheduleFetches, MaxScheduleCallers)

SpecSchedule == ScheduleInit /\ [][ScheduleNext]_vars

\* ---- panel activation in popups of 1..MaxPanels panels, with an index
\* from before the first panel to beyond the last
PanelInit ==
  /\ InitRoutes({})
  /\ InitSites({})
  /\ hoverCapable = FALSE
  /\ LiveInit
  /\ backend = NoRequest
  /\ sample \in {[fn |-> "panels", index |-> i,
                   panels |-> [j \in 1..n |-> [key |-> j, active |-> j \in on]]] :
                  n \in 1..MaxPanels, on \in SUBSET (1..MaxPanels),
                  i \in (-MaxPanels - 1)..(2 * MaxPanels)}

PanelNext == PanelSample

SpecPanels == PanelInit /\ [][PanelNext]_vars

\* ---- selection changes and the cluster rebuild they schedule. The
\* continuations of a task run before the next task; the browser gives a
\* rendering opportunity, in which the requested frame callbacks run, between
\* tasks, however many tasks follow one another.
RebuildInit ==
  /\ InitRoutes(1..2)
  /\ InitSites({1, 2})
  /\ hoverCapable = FALSE
  /\ LiveInit
  /\ backend = NoRequest
  /\ sample = NoSample

RebuildNext ==
  /\ \/ \E k \in RouteKeys : SelectRoute(k)
     \/ \E k \in RouteKeys : DeselectRoute(k)
     \/ \E f \in fetches, success \in BOOLEAN : FetchSettle(f, success)
     \/ \E i \in DOMAIN calls : Continue(i)
     \/ RebuildFrame
  /\ FetchBound(MaxFetches)
  /\ CallBound(MaxCalls)

SpecRebuildFair ==
  /\ RebuildInit
  /\ [][RebuildNext]_vars
  /\ SF_vars(RebuildFrame)
  /\ WF_vars(\E i \in DOMAIN calls : Continue(i))

\* ================================================================ properties
InFlight(k) == {f \in fetches : f.key = k}

\* C1: selection set consistency. In every state, the states between an
\* await and its continuation and those after a failed load included, a route
\* key is in selectedRouteKeys exactly when its RouteState.selected is true.
C1_SelectionSetConsistent ==
  \A k \in RouteKeys : (k \in Range(selectedRouteKeys)) <=> routeStateByKey[k].selected

\* a load has failed and was reported while another selection awaits its fetch
C1_Witness ==
  \E k, j \in RouteKeys :
    /\ statusText = <<"failed", k>>
    /\ ~routeStateByKey[k].selected
    /\ routeStateByKey[j].selected
    /\ \E i \in DOMAIN calls : calls[i].key = j /\ calls[i].st = "wait"

\* C2: single-flight geometry load in the selection manager. The selection
\* calls awaiting the geometry of a route all await the one fetch in flight for
\* it, the route's loadPromise; once it has settled, each of them resumes
\* seeing the routeData that fetch delivered and the layer built from it.
C2_SingleFlight ==
  \A k \in RouteKeys :
    /\ Cardinality(InFlight(k)) <= 1
    /\ \A i \in DOMAIN calls :
         calls[i].key = k /\ calls[i].sel =>
           /\ calls[i].st = "wait" =>
                /\ routeStateByKey[k].loadPromise = calls[i].n
                /\ InFlight(k) = {[key |-> k, n |-> calls[i].n, by |-> "manager"]}
           /\ calls[i].st = "ok" /\ calls[i].n # 0 =>
                /\ routeStateByKey[k].routeData = calls[i].n
                /\ routeStateByKey[k].layer # 0
                /\ routeStateByKey[k].layer = layerGroupsBuilt[k]

\* two calls selected the same route, one fetch was issued for it, and both
\* are about to resume on its result
C2_Witness ==
  \E k \in RouteKeys : \E i, j \in DOMAIN calls :
    /\ i < j
    /\ calls[i].key = k /\ calls[j].key = k
    /\ calls[i].st = "ok" /\ calls[j].st = "ok"
    /\ calls[i].own /\ ~calls[j].own
    /\ calls[i].n = 1 /\ calls[j].n = 1
    /\ fetchCount[k] = 1
    /\ routeStateByKey[k].routeData = 1

\* C3: at most one geometry fetch per route is in flight at any time, also
\* while the area filter resolves routes next to selection calls.
C3_OneFetchInFlight ==
  \A k \in RouteKeys : \A f, g \in InFlight(k) : f = g

\* the route's layer group is on the map
Attached(k) ==
  routeStateByKey[k].layer # 0 /\ <<k, routeStateByKey[k].layer>> \in mapLayers

\* the route is selected and no other route holds the preview
ShouldShow(k) ==
  routeStateByKey[k].selected /\ (activePreviewRouteKey = NoRoute \/ activePreviewRouteKey = k)

\* a setRouteSelection(k, true) call is between its await and its continuation
SelectionPending(k) == \E i \in DOMAIN calls : calls[i].key = k /\ calls[i].sel

Hovered(k) == previewHoverCountsByRouteKey[k] > 0

\* C5: preview arbitration precedence. Among the selected, loaded routes
\* with a hover session, the one whose session started last is the only route
\* on the map: after sessions on A and then B only B's layer is attached, and
\* once B's session has ended while A's lasts only A's layer is attached.
C5_PreviewPrecedence ==
  \A b \in RouteKeys :
    ( /\ routeStateByKey[b].selected
      /\ Hovered(b)
      /\ \A a \in RouteKeys \ {b} :
           Hovered(a) => previewActivationOrderByRouteKey[a] < previewActivationOrderByRouteKey[b] )
    => /\ activePreviewRouteKey = b
       /\ Attached(b)
       /\ \A c \in RouteKeys \ {b} : ~Attached(c)

\* A's session started first and still lasts, the session started after it
\* on another route has ended, and only A's layer is on the map
C5_Witness ==
  \E a \in RouteKeys :
    /\ \A k \in RouteKeys : routeStateByKey[k].selected
    /\ calls = <<>>
    /\ Hovered(a)
    /\ previewActivationOrderByRouteKey[a] = 1
    /\ previewActivationSequence = 2
    /\ \A c \in RouteKeys \ {a} : ~Hovered(c) /\ ~Attached(c)
    /\ Attached(a)

\* C6: no preview leak. Whenever no hover session is active on any cluster
\* popup, no route is preview-active, every hover count is zero, and every
\* selected route with a built layer (its selection call completed) is on the map.
C6_NoPreviewLeak ==
  (\A site \in Sites : ~stopClusterLayers[site].hoverSessionActive)
  => /\ activePreviewRouteKey = NoRoute
     /\ \A k \in RouteKeys : previewHoverCountsByRouteKey[k] = 0
     /\ \A k \in RouteKeys :
          routeStateByKey[k].selected /\ routeStateByKey[k].layer # 0 /\ ~SelectionPending(k)
            => Attached(k)

\* the calls of the running batch that started a fetch still in flight
BatchFetchesInFlight ==
  {i \in DOMAIN calls : calls[i].worker /\ calls[i].own /\ calls[i].st = "wait"}

\* C8: batch concurrency bound. While setRouteKeysSelected(keys, true,
\* {concurrency: c}) runs with c >= 1, the geometry fetches its workers
\* started that have not settled are at most c.
C8_BatchConcurrencyBound ==
  BatchRunning(St) /\ batch.selected =>
    /\ Cardinality(BatchFetchesInFlight) <= batch.concurrency
    /\ \A i \in BatchFetchesInFlight :
         [key |-> calls[i].key, n |-> calls[i].n, by |-> "manager"] \in fetches

\* a batch with concurrency 2 has two fetches in flight and a key left to take
C8_Witness ==
  /\ BatchRunning(St) /\ batch.selected
  /\ batch.concurrency = 2
  /\ Cardinality(BatchFetchesInFlight) = 2
  /\ batch.queue # <<>>

\* C9: stale popup discard. A step writes the result of a content request
\* into a popup only if the request's token is the latest issued and the
\* popup is open; the content shown is never that of a superseded request.
C9_StalePopupDiscard ==
  [][\A site \in Sites :
       /\ ( /\ stopClusterLayers'[site].contentToken # 0
            /\ stopClusterLayers'[site].contentToken # stopClusterLayers[site].contentToken )
          => /\ stopClusterLayers'[site].contentToken = stopClusterLayers[site].popupRequestToken
             /\ stopClusterLayers'[site].contentToken \in stopClusterLayers[site].requests
             /\ stopClusterLayers[site].popupOpen
       /\ stopClusterLayers'[site].contentToken \in {0, stopClusterLayers'[site].popupRequestToken}
       /\ stopClusterLayers'[site].content \in {"full", "error"}
          <=> stopClusterLayers'[site].contentToken # 0
    ]_vars

\* the popup was opened twice, the second request was written, and the first
\* resolved after it and was dropped
C9_Witness ==
  \E site \in Sites :
    /\ stopClusterLayers[site].popupRequestToken = 2
    /\ stopClusterLayers[site].contentToken = 2
    /\ stopClusterLayers[site].content = "full"
    /\ stopClusterLayers[site].lastSettle = "stale"
    /\ stopClusterLayers[site].requests = {}

\* the last two session callbacks are not twice the same, nor a lone end
Alternate(q) == q \in {<<>>, <<"start">>, <<"start", "end">>, <<"end", "start">>}

LastCall(q) == IF q = <<>> THEN "none" ELSE q[Len(q)]

\* C10: hover session boundaries. For each marker onHoverSessionStart and
\* onHoverSessionEnd alternate, beginning with a start; a start is made only
\* by a step that begins with no session active and leaves the popup open,
\* an end only by a step that closes the popup or removes the marker, and a
\* step during which the session stays active makes no call.
C10_HoverSessionBoundaries ==
  [][\A site \in Sites :
       LET removed == stopClusterRebuildFrame /\ ~stopClusterRebuildFrame' IN
       /\ Alternate(stopClusterLayers'[site].sessionCalls)
       /\ stopClusterLayers'[site].hoverSessionActive
            <=> LastCall(stopClusterLayers'[site].sessionCalls) = "start"
       /\ stopClusterLayers'[site].replacedCalls \in {<<>>, <<"start", "end">>}
       /\ removed /\ stopClusterLayers[site].hoverSessionActive
            => stopClusterLayers'[site].replacedCalls = <<"start", "end">>
       /\ removed /\ ~stopClusterLayers[site].hoverSessionActive
            => stopClusterLayers'[site].replacedCalls = stopClusterLayers[site].sessionCalls
       /\ ~removed /\ stopClusterLayers'[site].sessionCalls # stopClusterLayers[site].sessionCalls
            => \/ /\ LastCall(stopClusterLayers'[site].sessionCalls) = "start"
                  /\ ~stopClusterLayers[site].hoverSessionActive
                  /\ stopClusterLayers'[site].popupOpen
               \/ /\ LastCall(stopClusterLayers'[site].sessionCalls) = "end"
                  /\ stopClusterLayers[site].hoverSessionActive
                  /\ stopClusterLayers[site].popupOpen
                  /\ ~stopClusterLayers'[site].popupOpen
    ]_vars

\* the popup was opened, opened again while the session lasted, and closed:
\* one start and one end were made
C10_Witness ==
  \E site \in Sites :
    /\ stopClusterLayers[site].popupRequestToken = 2
    /\ stopClusterLayers[site].sessionCalls = <<"start", "end">>
    /\ ~stopClusterLayers[site].popupOpen
    /\ ~stopClusterLayers[site].hoverSessionActive

\* C7: failed selection. The continuation of a selection call whose load
\* failed completes the call with the route unselected, out of
\* selectedRouteKeys and without preview bookkeeping, reports the failure
\* naming the route, and issues no fetch; the manager issues a fetch for a
\* route only in a step that makes a selection call for it.
C7_FailedSelection ==
  [][/\ \A i \in DOMAIN calls :
          calls[i].st = "fail" /\ Continue(i) =>
            LET k == calls[i].key IN
            /\ ~routeStateByKey'[k].selected
            /\ k \notin Range(selectedRouteKeys')
            /\ previewHoverCountsByRouteKey'[k] = 0
            /\ previewActivationOrderByRouteKey'[k] = -1
            /\ previewDirectionByRouteKey'[k] = NoDir
            /\ activePreviewRouteKey' # k
            /\ statusText' = <<"failed", k>>
            /\ fetchCount'[k] = fetchCount[k]
            /\ {f \in fetches' : f.key = k} = {f \in fetches : f.key = k}
            /\ routeStateByKey'[k].loadPromise = 0
      /\ \A f \in fetches' \ fetches :
          f.by = "manager" =>
            /\ routeStateByKey'[f.key].selected
            /\ \E j \in DOMAIN calls' :
                 calls'[j] \notin Range(calls) /\ calls'[j].key = f.key /\ calls'[j].own
     ]_vars

\* a selection failed, was reported, and left the route unselected and idle
C7_Witness ==
  \E k \in RouteKeys :
    /\ statusText = <<"failed", k>>
    /\ ~routeStateByKey[k].selected
    /\ k \notin Range(selectedRouteKeys)
    /\ fetchCount[k] = 1
    /\ InFlight(k) = {}
    /\ calls = <<>>
\* C11: a close is scheduled when the pointer leaves the marker or the popup
\* body; the pointer entering the popup body, or the marker opening the popup
\* again, cancels the scheduled close and leaves the popup open; the popup is
\* closed by the timer only when a close was scheduled and not cancelled; a
\* marker never has more than one timeout still to fire.
C11_AutoCloseTimer ==
  [][\A site \in Sites :
       LET cl == stopClusterLayers[site]
           cl2 == stopClusterLayers'[site]
       IN /\ cl2.timers <= 1
          /\ (MarkerMouseout(site) \/ PopupMouseleave(site))
               => cl2.closeTimer = "pending" /\ cl2.timers = 1 /\ cl2.popupOpen = cl.popupOpen
          /\ PopupMouseenter(site)
               => cl2.closeTimer = "null" /\ cl2.timers = 0 /\ cl2.popupOpen
          /\ (MarkerMouseover(site) \/ MarkerClick(site))
               => cl2.closeTimer = "null" /\ cl2.timers = 0 /\ cl2.popupOpen
          /\ CloseTimerFires(site)
               => cl.closeTimer = "pending" /\ cl2.timers = 0 /\ ~cl2.popupOpen]_vars

\* the popup was opened a second time, which cancelled any scheduled close,
\* and the pointer then left: the popup is open with one close scheduled
C11_Witness ==
  \E site \in Sites :
    /\ stopClusterLayers[site].popupOpen
    /\ stopClusterLayers[site].popupRequestToken = 2
    /\ stopClusterLayers[site].closeTimer = "pending"
    /\ stopClusterLayers[site].timers = 1

\* the requests sent and neither aborted nor settled
Outstanding == {r \in polls : ~r.aborted}

\* the step is the settling of request r
Settles(r) == r \in polls /\ polls' = polls \ {r}

\* C12: while the live vehicle manager is not destroyed, the poll timer is
\* set exactly when its set of selected realtime route keys is not empty,
\* that set is the realtime keys of the last selection it was handed, and
\* when the set is empty no request is in flight and no vehicle marker is left.
C12_LivePollingActive ==
  [][/\ ~destroyed' =>
          /\ pollTimer' <=> liveSelectedRouteKeys' # {}
          /\ pollIntervals' = IF pollTimer' THEN 1 ELSE 0
          /\ liveSelectedRouteKeys' = {} =>
                /\ inFlightController' = NoController
                /\ {r \in polls' : ~r.aborted} = {}
                /\ layersByVehicleId' = NoLayers
     /\ \A routeKeys \in SUBSET LiveRouteKeys :
          SetSelectedRouteKeys(routeKeys) /\ ~destroyed =>
            liveSelectedRouteKeys' = {k \in routeKeys : isRealtimeRouteKey(k)}]_vars

\* the set became empty while a request was in flight and after a response
\* had been applied: the request is aborted and the timer cleared
C12_Witness ==
  /\ ~destroyed
  /\ liveSelectedRouteKeys = {}
  /\ ~pollTimer
  /\ \E r \in polls : r.aborted
  /\ lastPoll = "applied"

\* C13: at most one live vehicle request is outstanding, and it is the one
\* whose controller the manager holds; a timer tick or a selection change
\* made while a request is outstanding and left outstanding sends no
\* request, and the settling of a request sends none (nothing is queued).
C13_OnePollOutstanding ==
  [][/\ Cardinality({r \in polls' : ~r.aborted}) <= 1
     /\ \A r \in polls' : ~r.aborted => inFlightController' = r.id
     /\ (Outstanding # {} /\ {r \in polls' : ~r.aborted} = Outstanding)
          => pollsMade' = pollsMade
     /\ (\E r \in polls : Settles(r)) => pollsMade' = pollsMade]_vars

\* the selection changed to another non-empty set while a request is
\* outstanding: the request of the old set is the only one
C13_Witness ==
  \E r \in Outstanding :
    /\ r.sig # selectedRouteKeySignature
    /\ liveSelectedRouteKeys # {}
    /\ polls = {r}

\* C14: a response is applied to the markers and the source statuses only
\* when the manager is not destroyed and the signature of the selected keys
\* equals the one captured when the request was sent; any other response
\* leaves markers and source statuses as they were.
C14_StalePollDiscard ==
  [][\A r \in polls :
       Settles(r) =>
         /\ ~(~destroyed /\ r.sig = selectedRouteKeySignature) =>
              /\ layersByVehicleId' = layersByVehicleId
              /\ sourceStatusSignatureByAgency' = sourceStatusSignatureByAgency
              /\ lastPoll' # "applied"
         /\ (lastPoll' = "applied") =>
              /\ \A id \in DOMAIN layersByVehicleId' : VehicleRoute(id) \in r.keys
              /\ r.keys = liveSelectedRouteKeys]_vars

\* a response to a request sent for another selection arrived and was
\* dropped while markers of an earlier response are shown
C14_Witness ==
  /\ lastPoll = "stale"
  /\ ~destroyed
  /\ layersByVehicleId # NoLayers

\* C15: a request that fails without having been aborted leaves the vehicle
\* markers, their positions and the source statuses as they were, frees the
\* in-flight slot and leaves the poll timer set; the next tick of the timer
\* sends a request.
C15_FailedPollKeepsMarkers ==
  [][/\ \A r \in Outstanding :
          PollSettle(r, FALSE, NoLayers, NoLayers) =>
            /\ layersByVehicleId' = layersByVehicleId
            /\ sourceStatusSignatureByAgency' = sourceStatusSignatureByAgency
            /\ inFlightController' = NoController
            /\ pollTimer' = pollTimer /\ pollIntervals' = pollIntervals
            /\ ~destroyed => pollTimer'
     /\ (PollTick /\ lastPoll = "failed" /\ inFlightController = NoController)
          => /\ pollsMade' = pollsMade + 1
             /\ {r \in polls' : ~r.aborted} # {}]_vars

\* a request failed while markers were shown: they are still shown, the
\* slot is free and the timer set
C15_Witness ==
  /\ lastPoll = "failed"
  /\ layersByVehicleId # NoLayers
  /\ inFlightController = NoController
  /\ pollTimer

\* the routes and stops of a cluster, as a set
ClusterMembers(clusters) == {Range(clusters[c].variants) : c \in DOMAIN clusters}

ProcessingOrders(n) == {f \in [1..n -> 1..n] : \A i, j \in 1..n : f[i] = f[j] => i = j}

WithinMergeDistance(a, b) ==
  DistanceSq(a.x, a.y, b.x, b.y)
    <= STOP_CLUSTER_MERGE_DISTANCE_METERS * STOP_CLUSTER_MERGE_DISTANCE_METERS

\* C16: any two variants of the input within the merge distance of each other
\* are in the same cluster, and the clusters do not depend on the order the
\* variants are processed in.
C16_ClusterMergeTransitive ==
  sample.fn = "clusters" =>
    /\ \A i, j \in DOMAIN sample.variants :
         WithinMergeDistance(sample.variants[i], sample.variants[j]) =>
           \E c \in DOMAIN sample.clusters :
             {sample.variants[i], sample.variants[j]} \subseteq Range(sample.clusters[c].variants)
    /\ \A f \in ProcessingOrders(Len(sample.variants)) :
         ClusterMembers(clusterStopVariants([i \in DOMAIN sample.variants |-> sample.variants[f[i]]]))
           = ClusterMembers(sample.clusters)

\* C17: two stop variants of different routes form one cluster when their
\* distance is at most the merge distance and two clusters when it is
\* greater, whatever cells of the grid they fall in.
C17_MergeRadiusTwoStops ==
  (sample.fn = "clusters" /\ Len(sample.variants) = 2
     /\ sample.variants[1].routeKey # sample.variants[2].routeKey) =>
    IF WithinMergeDistance(sample.variants[1], sample.variants[2])
    THEN /\ Len(sample.clusters) = 1
         /\ sample.clusters[1].variants = sample.variants
    ELSE /\ Len(sample.clusters) = 2
         /\ \A c \in 1..2 : sample.clusters[c].variants = <<sample.variants[c]>>

\* two stops of different routes, 21 m apart in different cells of the
\* grid, form one cluster
C17_Witness ==
  /\ sample.fn = "clusters"
  /\ Len(sample.variants) = 2
  /\ sample.variants[1] = [routeKey |-> 1, x |-> 20, y |-> 0]
  /\ sample.variants[2] = [routeKey |-> 2, x |-> -1, y |-> 0]
  /\ Len(sample.clusters) = 1

\* C18: the variants kept for a cluster hold each route of the cluster once,
\* and the variant kept for a route is a stop of that route in the cluster
\* no farther from the cluster's centre than any other stop of the route.
C18_OneVariantPerRoute ==
  sample.fn = "clusters" =>
    \A c \in DOMAIN sample.clusters :
      LET cluster == sample.clusters[c]
          kept == sample.views[c]
      IN /\ \A m, n \in DOMAIN kept : kept[m].routeKey = kept[n].routeKey => m = n
         /\ {kept[n].routeKey : n \in DOMAIN kept}
              = {cluster.variants[i].routeKey : i \in DOMAIN cluster.variants}
         /\ \A n \in DOMAIN kept :
              /\ kept[n] \in Range(cluster.variants)
              /\ \A i \in DOMAIN cluster.variants :
                   cluster.variants[i].routeKey = kept[n].routeKey =>
                     CenterDistance(cluster, kept[n]) <= CenterDistance(cluster, cluster.variants[i])

\* a cluster of three stops, two of them of route 1: the second stop of
\* route 1, nearer to the centre, is the one kept
C18_Witness ==
  /\ sample.fn = "clusters"
  /\ Len(sample.clusters) = 1
  /\ sample.variants = <<[routeKey |-> 1, x |-> 0, y |-> 0], [routeKey |-> 1, x |-> 10, y |-> 0],
                          [routeKey |-> 2, x |-> 20, y |-> 0]>>
  /\ sample.views[1] = <<[routeKey |-> 1, x |-> 10, y |-> 0], [routeKey |-> 2, x |-> 20, y |-> 0]>>

\* C19: at most one rebuild callback is requested at a time, so the selection
\* changes made before a frame share one rebuild; the rebuild builds the
\* clusters of the routes selected and loaded when the frame fires; while no
\* rebuild is pending no cluster holds a deselected route, and with no
\* selection call suspended the clusters are those of the selection; a
\* pending rebuild does run.
C19_CoalescedRebuild ==
  /\ [](/\ animationFramesRequested <= 1
        /\ stopClusterRebuildFrame <=> animationFramesRequested = 1)
  /\ [][animationFramesRequested' < animationFramesRequested =>
          \A site \in Sites :
            stopClusterLayers'[site].variants = collectSelectedStopVariants(St, site)]_vars
  /\ [](~stopClusterRebuildFrame =>
          \A site \in Sites :
            /\ \A k \in stopClusterLayers[site].variants : routeStateByKey[k].selected
            /\ calls = <<>> =>
                 stopClusterLayers[site].variants = collectSelectedStopVariants(St, site))
  /\ (stopClusterRebuildFrame ~> ~stopClusterRebuildFrame)

\* both routes were selected and loaded since the last rebuild, and one
\* rebuild is pending for them
C19_Witness ==
  /\ stopClusterRebuildFrame
  /\ animationFramesRequested = 1
  /\ calls = <<>>
  /\ \A k \in RouteKeys : routeStateByKey[k].selected /\ routeStateByKey[k].layer # 0
  /\ \A site \in Sites : stopClusterLayers[site].variants = {}

\* the angle between two directions given as numerators over ProgressSteps
Sweep(a, b) ==
  LET d == (a - b) % (360 * ProgressSteps) IN
  IF d <= 180 * ProgressSteps THEN d ELSE 360 * ProgressSteps - d

\* C20: for whole-degree bearings s and e in [0, 360), interpolateBearing
\* gives s at progress 0 and e at progress 1, always a value in [0, 360), and
\* a value that is progress times at most 180 degrees away from s and the
\* rest of that sweep away from e; from 350 to 10 at progress 0.5 it gives 0.
C20_BearingShortWay ==
  (sample.fn = "interpolated" /\ sample.startBearing # NoBearing
                              /\ sample.endBearing # NoBearing) =>
    LET s == sample.startBearing * ProgressSteps
        e == sample.endBearing * ProgressSteps
        whole == Sweep(s, e) \div ProgressSteps
    IN /\ sample.p = 0 => sample.bearing = s
       /\ sample.p = ProgressSteps => sample.bearing = e
       /\ sample.bearing >= 0 /\ sample.bearing < 360 * ProgressSteps
       /\ whole <= 180
       /\ Sweep(sample.bearing, s) = whole * sample.p
       /\ Sweep(sample.bearing, e) = whole * (ProgressSteps - sample.p)
       /\ (sample.startBearing = 350 /\ sample.endBearing = 10
             /\ 2 * sample.p = ProgressSteps) => sample.bearing = 0

\* half way from 350 to 10 degrees
C20_Witness ==
  /\ sample.fn = "interpolated"
  /\ sample.startBearing = 350 /\ sample.endBearing = 10
  /\ 2 * sample.p = ProgressSteps
  /\ sample.bearing = 0

\* both bearings of the sample are numbers
BothBearings ==
  sample.fn = "interpolated" /\ sample.startBearing # NoBearing /\ sample.endBearing # NoBearing

Opposite == (sample.endBearing - sample.startBearing) % 360 = 180

\* C21 as stated: the delta lies in (-180, 180], is +180 for opposite
\* headings, and start + delta is the end bearing modulo 360.
C21_DeltaUpperClosed ==
  BothBearings =>
    /\ sample.delta > -180 /\ sample.delta <= 180
    /\ Opposite => sample.delta = 180
    /\ (sample.startBearing + sample.delta - sample.endBearing) % 360 = 0

\* C21 amended: the delta lies in [-180, 180), is -180 for opposite headings,
\* and start + delta is the end bearing modulo 360.
C21_DeltaLowerClosed ==
  BothBearings =>
    /\ sample.delta >= -180 /\ sample.delta < 180
    /\ Opposite => sample.delta = -180
    /\ (sample.startBearing + sample.delta - sample.endBearing) % 360 = 0

\* opposite headings, from 90 to 270 degrees
C21_Witness ==
  /\ BothBearings
  /\ sample.startBearing = 90 /\ sample.endBearing = 270
  /\ sample.delta = -180

\* C22: a raw time H:M:S with H >= 0 is rendered as the hour on the 12-hour
\* clock (1..12), a colon, the minutes in two digits, AM when H mod 24 < 12
\* and PM otherwise, followed by " (+d)" with d = floor(H / 24) exactly when
\* H >= 24; 25:05:00 gives "1:05 AM (+1)" and 08:15:00 gives "8:15 AM".
C22_OverflowTimeFormatting ==
  (sample.fn = "formatted" /\ sample.h # NaN) =>
    LET hour == CHOOSE x \in 1..12 : (x - sample.h) % 12 = 0
        clock == NumberToString(hour) \o <<":", DigitChars[(sample.m \div 10) + 1],
                                      DigitChars[(sample.m % 10) + 1], " ">>
                   \o (IF sample.h % 24 < 12 THEN <<"A", "M">> ELSE <<"P", "M">>)
    IN /\ sample.h < 24 => sample.text = clock
       /\ sample.h >= 24 =>
            sample.text = clock \o <<" ", "(", "+">> \o NumberToString(sample.h \div 24) \o <<")">>
       /\ sample.rawTime = <<"2", "5", ":", "0", "5", ":", "0", "0">> =>
            sample.text = <<"1", ":", "0", "5", " ", "A", "M", " ", "(", "+", "1", ")">>
       /\ sample.rawTime = <<"0", "8", ":", "1", "5", ":", "0", "0">> =>
            sample.text = <<"8", ":", "1", "5", " ", "A", "M">>

\* 25:05:00 was formatted, with its day suffix
C22_Witness ==
  /\ sample.fn = "formatted"
  /\ sample.rawTime = <<"2", "5", ":", "0", "5", ":", "0", "0">>
  /\ sample.text = <<"1", ":", "0", "5", " ", "A", "M", " ", "(", "+", "1", ")">>

\* the occurrences of the sample departures on the service days at offsets
\* 0..8 that are not before now
Occurrences ==
  {[when |-> o * 86400 + d.h * 3600 + d.m * 60 + d.s,
    token |-> <<d.dayKey, ":">> \o d.rawTime] :
     <<o, d>> \in {x \in (0..8) \X {sample.departures[i] : i \in DOMAIN sample.departures} :
                     /\ x[2].h # NaN
                     /\ x[2].dayKey = JS_DAY_TO_KEY[((sample.today + x[1]) % 7) + 1]
                     /\ x[1] * 86400 + x[2].h * 3600 + x[2].m * 60 + x[2].s >= sample.now}}

\* C23: findNextArrival returns an occurrence, with token <dayKey>:<rawTime>,
\* than which no occurrence at offsets 0..8 that is not before now is earlier;
\* it returns null exactly when no day has a parsable time; at Monday 08:00:00
\* with Monday departures 08:15:00 and 17:45:00 the token is monday:08:15:00.
C23_NextArrival ==
  sample.fn = "nextArrival" =>
    /\ sample.next = NoArrival <=>
         \A i \in DOMAIN sample.departures : sample.departures[i].h = NaN
    /\ sample.next # NoArrival =>
         /\ \E occ \in Occurrences :
              occ.when = sample.next.when /\ occ.token = sample.next.token
         /\ \A occ \in Occurrences : sample.next.when <= occ.when
    /\ (/\ sample.today = 1 /\ sample.now = 28800
        /\ [i \in DOMAIN sample.departures |->
              <<sample.departures[i].dayKey, sample.departures[i].rawTime>>]
             = << <<"monday", RawTimeOf(8, 15, 0, TRUE)>>,
                  <<"monday", RawTimeOf(17, 45, 0, TRUE)>> >>)
         => sample.next.token = <<"monday", ":", "0", "8", ":", "1", "5", ":", "0", "0">>

\* on a Monday after both departures of the day: the next one is Sunday's
\* 25:05:00, which occurs on the following Monday and keeps the key sunday
C23_Witness ==
  /\ sample.fn = "nextArrival"
  /\ sample.today = 1 /\ sample.now = 86399
  /\ Len(sample.departures) = 2
  /\ sample.departures[1].dayKey = "monday" /\ sample.departures[1].h = 8
  /\ sample.departures[2].dayKey = "sunday" /\ sample.departures[2].h = 25
  /\ sample.next.token = <<"sunday", ":", "2", "5", ":", "0", "5", ":", "0", "0">>
  /\ sample.next.when = 6 * 86400 + 25 * 3600 + 5 * 60

\* the request asks for a route of the agency
Requested(agencyId) ==
  \E i \in DOMAIN backend.routeKeys : backend.routeKeys[i][1] = agencyId

\* the feed entries of an agency that the answer owes: usable, of a requested route
Owed(agencyId, entries) ==
  {entries[i].vehicleId : i \in {j \in DOMAIN entries :
      /\ entries[j].usable
      /\ \E k \in DOMAIN backend.routeKeys :
           backend.routeKeys[k] = <<agencyId, ":">> \o entries[j].routeId}}

Answered(agencyId) ==
  {backend.vehicles[i].vehicleId :
     i \in {j \in DOMAIN backend.vehicles : backend.vehicles[j].agencyId = agencyId}}

\* C24: a POST whose route keys are not empty is answered with 200 and one
\* source status per agency; an agency whose feed failed (network error,
\* timeout, non-2xx, undecodable body) or whose API key is missing is
\* reported as error or unavailable with no vehicle, and the answer still
\* holds the vehicles the other agency's feed delivered.
C24_AgencyIsolation ==
  (backend.phase = "responded" /\ backend.method = "POST" /\ backend.routeKeys # <<>>) =>
    LET princetonFailed == backend.princetonFeed.kind \in FeedFailures
        njtFailed == \/ backend.njtFeed.kind \in FeedFailures
                     \/ Requested("njt") /\ ~backend.apiKey
    IN /\ backend.statusCode = 200
       /\ Len(backend.sources) = 2
       /\ backend.sources[1].agencyId = "princeton"
       /\ backend.sources[2].agencyId = "njt"
       /\ princetonFailed =>
            /\ backend.sources[1].status \in {"error", "unavailable"}
            /\ backend.sources[1].vehicleCount = 0
            /\ Answered("princeton") = {}
            /\ backend.njtFeed.kind = "ok" =>
                 Answered("njt") = Owed("njt", backend.njtFeed.entries)
       /\ njtFailed =>
            /\ backend.sources[2].status \in {"error", "unavailable"}
            /\ backend.sources[2].vehicleCount = 0
            /\ Answered("njt") = {}
            /\ backend.princetonFeed.kind = "ok" =>
                 Answered("princeton") = Owed("princeton", backend.princetonFeed.entries)

\* the TripShot request timed out and the answer holds the NJT vehicle of the
\* requested route
C24_Witness ==
  /\ backend.phase = "responded"
  /\ backend.princetonFeed.kind = "timeout"
  /\ backend.njtFeed.kind = "ok"
  /\ backend.sources[1].status = "error"
  /\ backend.sources[2].status = "ok"
  /\ Len(backend.njtFeed.entries) = 2
  /\ Answered("njt") = {"n1"}

\* a geometry / schedule fetch of the step's first state ends in failure
GeometryLoadFails(f) ==
  f \in fetches /\ f \notin fetches' /\ routeStateByKey'[f.key].routeData # f.n

ScheduleLoadFails(f) ==
  f \in scheduleFetches /\ f \notin scheduleFetches'
    /\ scheduleStateByKey'[f.key].scheduleData # f.n

\* C25: a failed geometry load leaves loadPromise null and no route data or
\* layer, a failed schedule load leaves scheduleLoadPromise null and no
\* schedule data; in such a state the next load attempt (a selection of the
\* route, a popup view that needs the schedule) issues a new fetch.
C25_RetryAfterFailure ==
  [][/\ \A f \in fetches : GeometryLoadFails(f) =>
          /\ routeStateByKey'[f.key].loadPromise = 0
          /\ routeStateByKey'[f.key].routeData = 0
          /\ routeStateByKey'[f.key].layer = 0
     /\ \A f \in scheduleFetches : ScheduleLoadFails(f) =>
          /\ scheduleStateByKey'[f.key].scheduleLoadPromise = 0
          /\ scheduleStateByKey'[f.key].scheduleData = 0
     /\ \A k \in RouteKeys :
          /\ (/\ SelectRoute(k)
              /\ routeStateByKey[k].routeData = 0
              /\ routeStateByKey[k].loadPromise = 0) =>
               /\ fetchCount'[k] = fetchCount[k] + 1
               /\ \E f \in fetches' \ fetches : f.key = k
          /\ (/\ BuildClusterRouteView(k)
              /\ scheduleStateByKey[k].scheduleData = 0
              /\ scheduleStateByKey[k].scheduleLoadPromise = 0) =>
               /\ scheduleStateByKey'[k].fetchCount = scheduleStateByKey[k].fetchCount + 1
               /\ \E f \in scheduleFetches' \ scheduleFetches : f.key = k]_vars

\* route 1: the first geometry fetch and the first schedule fetch failed, the
\* second of each succeeded
C25_Witness ==
  /\ fetchCount[1] = 2
  /\ routeStateByKey[1].routeData = 2
  /\ scheduleStateByKey[1].fetchCount = 2
  /\ scheduleStateByKey[1].scheduleData = 2

ScheduleFetchesOf(k) == {f \in scheduleFetches : f.key = k}

\* C26: at most one schedule fetch of a route is in flight, and it is the one
\* scheduleLoadPromise stands for; a caller that needs the schedule while it
\* loads awaits that promise and issues no fetch; every caller receives the
\* ScheduleData that is stored; once it is stored no schedule fetch is
\* issued for the route.
C26_SingleFlightSchedule ==
  /\ [](\A k \in RouteKeys :
          /\ Cardinality(ScheduleFetchesOf(k)) <= 1
          /\ \A f \in ScheduleFetchesOf(k) :
               /\ scheduleStateByKey[k].scheduleLoadPromise = f.n
               /\ scheduleStateByKey[k].scheduleData = 0
          /\ scheduleStateByKey[k].received \subseteq
               ({scheduleStateByKey[k].scheduleData} \ {0}))
  /\ [][\A k \in RouteKeys :
          /\ scheduleStateByKey[k].scheduleData # 0 =>
               /\ scheduleStateByKey'[k].fetchCount = scheduleStateByKey[k].fetchCount
               /\ scheduleStateByKey'[k].scheduleData = scheduleStateByKey[k].scheduleData
          /\ (BuildClusterRouteView(k) /\ scheduleStateByKey[k].scheduleLoadPromise # 0) =>
               /\ scheduleFetches' = scheduleFetches
               /\ scheduleStateByKey'[k].awaiting = scheduleStateByKey[k].awaiting + 1]_vars

\* the prefetch of route 1 and a popup view await its one schedule fetch
C26_Witness ==
  /\ ScheduleFetchesOf(1) = {[key |-> 1, n |-> 1]}
  /\ scheduleStateByKey[1].awaiting = 2
  /\ scheduleStateByKey[1].fetchCount = 1

\* C27: when the content factory of a request rejects, the popup shows the
\* error placeholder if the request is the latest one and the popup is open;
\* otherwise the popup's content, its open state and the manager's state stay
\* as they are.
C27_PopupContentFailure ==
  [][\A site \in Sites, token \in 1..MaxTokens :
       ContentSettle(site, token, FALSE) =>
         IF token = stopClusterLayers[site].popupRequestToken /\ stopClusterLayers[site].popupOpen
           THEN /\ stopClusterLayers'[site].content = "error"
                /\ stopClusterLayers'[site].contentToken = token
                /\ stopClusterLayers'[site].popupOpen
           ELSE /\ stopClusterLayers'[site].content = stopClusterLayers[site].content
                /\ stopClusterLayers'[site].contentToken = stopClusterLayers[site].contentToken
                /\ stopClusterLayers'[site].popupOpen = stopClusterLayers[site].popupOpen
                /\ stopClusterLayers'[site].panelIndex = stopClusterLayers[site].panelIndex
                /\ UNCHANGED mgrVars]_vars

\* the latest request failed while the popup was open
C27_Witness ==
  \E site \in Sites :
    /\ stopClusterLayers[site].popupOpen
    /\ stopClusterLayers[site].content = "error"
    /\ stopClusterLayers[site].contentToken = stopClusterLayers[site].popupRequestToken
    /\ stopClusterLayers[site].lastSettle = "written"

\* C28: activating index i among n >= 1 panels makes the panel at
\* ((i mod n) + n) mod n active and every other panel hidden, so that next
\* from the last panel is the first and previous from the first is the last;
\* exactly one panel is active and the callback gets that panel's key.
C28_PanelCycling ==
  sample.fn = "activated" =>
    LET n == Len(sample.before)
        panels == sample.result.panels
        target == CHOOSE j \in 0..(n - 1) : (sample.index - j) % n = 0
    IN /\ Len(panels) = n
       /\ \A j \in 1..n : panels[j].key = sample.before[j].key
       /\ \A j \in 1..n : panels[j].active <=> j - 1 = target
       /\ Cardinality({j \in 1..n : panels[j].active}) = 1
       /\ sample.index = n => panels[1].active
       /\ sample.index = -1 => panels[n].active
       /\ sample.result.activeKey = sample.before[target + 1].key

\* previous from the first of three panels: the last one becomes active
C28_Witness ==
  /\ sample.fn = "activated"
  /\ Len(sample.before) = 3
  /\ sample.before[1].active /\ ~sample.before[3].active
  /\ sample.index = -1
  /\ sample.result.panels[3].active /\ ~sample.result.panels[1].active
  /\ sample.result.activeKey = 3

\* The shapes of a route, each named by the set of direction keys it serves
\* (shapeLayersByRouteKey, built at 1037-1043): one per direction, one shared
\* by both and one serving none.
RouteShapes == SUBSET DirKeys

ShapesTaggedWith(d) == {shape \in RouteShapes : d \in shape}

\* the shapes in the layer group of route k, as the last
\* syncRouteShapeVisibility (399-411) or buildRouteLayer left them
ShownShapes(k) ==
  IF shapeFilter[k] = NoDir THEN RouteShapes ELSE ShapesTaggedWith(shapeFilter[k])

\* C29: a selected route that is preview-active with a preview direction d
\* recorded shows exactly its shapes tagged with d; every other selected
\* route, and the preview-active route with no direction recorded, shows all
\* its shapes.
C29_DirectionAwareShapes ==
  \A k \in RouteKeys :
    routeStateByKey[k].selected /\ routeStateByKey[k].layer # 0 =>
      ShownShapes(k) =
        IF activePreviewRouteKey = k /\ previewDirectionByRouteKey[k] # NoDir
          THEN ShapesTaggedWith(previewDirectionByRouteKey[k])
          ELSE RouteShapes

\* the markers the manager holds
MarkerObjects == {layersByVehicleId[id].object : id \in DOMAIN layersByVehicleId}

\* C30: when a response that is not stale is applied, the rendered vehicle
\* ids become the ids of the response whose route is selected; the marker of
\* an id absent from the response is removed and its animation cancelled, an
\* id new in the response gets a marker made for it, and an id rendered
\* before and after keeps its marker, which is moved from where it is.
C30_VehicleDiffById ==
  [][\A r \in polls, ids \in SUBSET VehicleIds :
       \A vehicles \in [ids -> Positions] :
         PollSettle(r, TRUE, vehicles, NoLayers) /\ lastPoll' = "applied" =>
           LET before == DOMAIN layersByVehicleId
               after == DOMAIN layersByVehicleId'
           IN /\ after = {id \in ids : VehicleRoute(id) \in liveSelectedRouteKeys'}
              /\ \A id \in before \ after :
                    /\ layersByVehicleId[id].object \notin MarkerObjects'
                    /\ layersByVehicleId[id].object \notin vehicleAnimationFrames'
              /\ \A id \in after \ before :
                    /\ layersByVehicleId'[id].object \notin MarkerObjects
                    /\ layersByVehicleId'[id].object > vehicleMarkersCreated
                    /\ layersByVehicleId'[id].marker = vehicles[id]
              /\ \A id, j \in after :
                    layersByVehicleId'[id].object = layersByVehicleId'[j].object => id = j
              /\ \A id \in after \cap before :
                    /\ layersByVehicleId'[id].object = layersByVehicleId[id].object
                    /\ layersByVehicleId'[id].marker = layersByVehicleId[id].marker
                    /\ layersByVehicleId'[id].to = vehicles[id]
                    /\ layersByVehicleId'[id].animationFrame
                          <=> layersByVehicleId[id].marker # vehicles[id]]_vars

\* after three responses: vehicle a keeps the first marker made and is on its
\* way to a new position, vehicle b's marker is gone, and the only frame
\* requested is the one of a's marker
C30_Witness ==
  /\ lastPoll = "applied"
  /\ DOMAIN layersByVehicleId = {"a"}
  /\ vehicleMarkersCreated = 2
  /\ layersByVehicleId["a"].animationFrame
  /\ layersByVehicleId["a"].marker # layersByVehicleId["a"].to
  /\ vehicleAnimationFrames = {layersByVehicleId["a"].object}
  /\ pollsMade = 3 /\ polls = {}

\* C31: when a response is applied, a warning is written for an agency
\* exactly when the (status, message) pair the response reports for it
\* differs from the pair last recorded for it and the status is error or
\* unavailable; the pair recorded is then the one reported. Nothing else
\* writes a source warning, so a repeated pair writes none.
C31_SourceStatusLoggedOnChange ==
  [][/\ \A r \in polls, as \in SUBSET Agencies :
          \A sources \in [as -> SourceReports] :
            PollSettle(r, TRUE, NoLayers, sources) /\ lastPoll' = "applied" =>
              \A a \in Agencies :
                LET reported == IF a \in as THEN <<sources[a].status, sources[a].message>>
                                ELSE sourceStatusSignatureByAgency[a]
                    differs == reported # sourceStatusSignatureByAgency[a]
                    warns == differs /\ reported[1] \in {"error", "unavailable"}
                IN /\ sourceWarnings'[a] = sourceWarnings[a] + IF warns THEN 1 ELSE 0
                   /\ sourceStatusSignatureByAgency'[a] = reported
     /\ lastPoll' # "applied" => sourceWarnings' = sourceWarnings
     /\ sourceStatusSignatureByAgency' = sourceStatusSignatureByAgency
          => sourceWarnings' = sourceWarnings]_vars

\* two responses were applied: princeton reported the same error in both
\* and was warned of once, njt went from error to unavailable and was warned
\* of twice
C31_Witness ==
  /\ lastPoll = "applied"
  /\ pollsMade = 2 /\ polls = {}
  /\ sourceStatusSignatureByAgency["princeton"] = <<"error", "timeout">>
  /\ sourceWarnings["princeton"] = 1
  /\ sourceStatusSignatureByAgency["njt"] = <<"unavailable", NoMessage>>
  /\ sourceWarnings["njt"] = 2

\* no timer, no request in flight, no marker and no animation frame
LiveCleanedUp ==
  /\ ~pollTimer /\ pollIntervals = 0
  /\ inFlightController = NoController
  /\ {r \in polls : ~r.aborted} = {}
  /\ layersByVehicleId = NoLayers
  /\ vehicleAnimationFrames = {}

\* C32: a destroyed manager has no poll timer, no request in flight, no
\* vehicle marker and no animation frame pending, as has a manager whose
\* selected set is empty; and once destroyed, no call of setSelectedRouteKeys,
\* no timer tick and no response arriving late makes a marker, starts a timer
\* or sends a request.
C32_DestroyCleansUp ==
  /\ [](destroyed => LiveCleanedUp)
  /\ [](liveSelectedRouteKeys = {} => LiveCleanedUp)
  /\ [][destroyed =>
          /\ destroyed'
          /\ pollsMade' = pollsMade
          /\ vehicleMarkersCreated' = vehicleMarkersCreated
          /\ pollIntervals' = pollIntervals
          /\ liveSelectedRouteKeys' = liveSelectedRouteKeys]_vars

\* the manager was destroyed while markers were shown and a request was in
\* flight; the request has since ended, aborted
C32_Witness ==
  /\ destroyed
  /\ vehicleMarkersCreated > 0
  /\ liveSelectedRouteKeys # {}
  /\ polls = {}
  /\ lastPoll = "aborted"

\* the promise of the batch call of the sample has resolved
BatchResolved == sample.fn = "called" /\ batch.owner = "none"

\* the selection transition has been applied to key k of the sample batch:
\* a selected route is loaded and in the selected set, unless its load was
\* tried and failed; a deselected route is out of the selected set
BatchApplied(k) ==
  LET inSet == \E i \in DOMAIN selectedRouteKeys : selectedRouteKeys[i] = k IN
  IF sample.selected
    THEN \/ routeStateByKey[k].selected /\ routeStateByKey[k].layer # 0 /\ inSet
         \/ ~routeStateByKey[k].selected /\ ~inSet /\ fetchCount[k] >= 1
  ELSE ~routeStateByKey[k].selected /\ ~inSet

\* C33: whatever concurrency c is passed, setRouteKeysSelected(keys, selected,
\* {concurrency: c}) resolves, and when it has resolved the selection
\* transition has been applied to every key of keys, once (no key was loaded
\* more than once), also when loads fail.
C33_BatchCompleteness ==
  /\ [](BatchResolved =>
          \A i \in DOMAIN sample.keys :
            BatchApplied(sample.keys[i]) /\ fetchCount[sample.keys[i]] <= 1)
  /\ <>BatchResolved

\* C34: the routeData of a route, once set, is never assigned again; a
\* route's layer group is built at most once; and no layer group other than
\* the route's current one is attached to the map.
C34_DataAndLayerOnce ==
  /\ [][\A k \in RouteKeys :
          routeStateByKey[k].routeData # 0 =>
            routeStateByKey'[k].routeData = routeStateByKey[k].routeData]_vars
  /\ [](\A k \in RouteKeys : layerGroupsBuilt[k] <= 1)
  /\ [](\A attached \in mapLayers :
          attached[2] = routeStateByKey[attached[1]].layer)

\* C35: activePreviewRouteKey is null exactly when no selected route has a
\* hover count above zero; otherwise it is the selected route with a hover
\* count above zero whose activation number is the largest. A route that is
\* not selected has no hover count and is not the preview-active one.
C35_PreviewWinner ==
  LET hovered == {k \in RouteKeys :
                    routeStateByKey[k].selected /\ previewHoverCountsByRouteKey[k] > 0}
  IN /\ activePreviewRouteKey = NoRoute <=> hovered = {}
     /\ activePreviewRouteKey # NoRoute =>
           /\ activePreviewRouteKey \in hovered
           /\ \A k \in hovered \ {activePreviewRouteKey} :
                 previewActivationOrderByRouteKey[k]
                   < previewActivationOrderByRouteKey[activePreviewRouteKey]
     /\ \A k \in RouteKeys :
           ~routeStateByKey[k].selected =>
             previewHoverCountsByRouteKey[k] = 0 /\ activePreviewRouteKey # k

\* two selected routes are hovered and the one activated first is the
\* preview-active one again: the session started last has ended or its route
\* was deselected
C35_Witness ==
  \E k, j \in RouteKeys :
    /\ k # j
    /\ activePreviewRouteKey = k
    /\ previewHoverCountsByRouteKey[j] > 0 /\ routeStateByKey[j].selected
    /\ previewActivationOrderByRouteKey[j] < previewActivationOrderByRouteKey[k]
    /\ previewActivationOrderByRouteKey[k] < previewActivationSequence

\* route k is deselected, out of the selected set and has no layer on the map
DeselectedAndHidden(k) ==
  /\ ~routeStateByKey[k].selected
  /\ \A i \in DOMAIN selectedRouteKeys : selectedRouteKeys[i] # k
  /\ \A attached \in mapLayers : attached[1] # k

\* C36: when the geometry load started by a selection of route k succeeds
\* after k has been deselected, k stays deselected, out of the selected set
\* and off the map, both when the fetch settles and when the suspended
\* selection call resumes, while the data and the layer built from it are
\* kept; selecting a route whose data is there sends no fetch.
C36_DeselectDuringLoad ==
  /\ [][\A f \in fetches :
          FetchSettle(f, TRUE) /\ ~routeStateByKey[f.key].selected =>
            /\ DeselectedAndHidden(f.key)'
            /\ routeStateByKey'[f.key].routeData = f.n
            /\ routeStateByKey'[f.key].layer # 0]_vars
  /\ [][\A i \in DOMAIN calls, k \in RouteKeys :
          (/\ calls[i].key = k /\ calls[i].sel /\ calls[i].st = "ok"
           /\ ~routeStateByKey[k].selected
           /\ Continue(i)) =>
            /\ DeselectedAndHidden(k)'
            /\ routeStateByKey'[k].routeData = routeStateByKey[k].routeData]_vars
  /\ [][\A k \in RouteKeys :
          SelectRoute(k) /\ routeStateByKey[k].routeData # 0 =>
            fetchCount' = fetchCount /\ fetches' = fetches]_vars

\* the load of a route deselected in the meantime has just succeeded: the
\* selection call is about to resume, the route is deselected and hidden and
\* its data and layer are there
C36_Witness ==
  \E i \in DOMAIN calls :
    /\ calls[i].sel /\ calls[i].st = "ok"
    /\ DeselectedAndHidden(calls[i].key)
    /\ routeStateByKey[calls[i].key].routeData # 0
    /\ routeStateByKey[calls[i].key].layer # 0
    /\ fetchCount[calls[i].key] = 1

\* the cluster popups whose hover session is open and previews route r
SessionsPreviewing(r) ==
  {site \in Sites : /\ stopClusterLayers[site].hoverSessionActive
                    /\ stopClusterLayers[site].previewRouteKey = r}

\* C37: for every selected route r, the hover count of r is the number of
\* cluster popups with an open hover session whose preview route is r.
C37_HoverCountsMatchSessions ==
  \A r \in RouteKeys :
    routeStateByKey[r].selected =>
      previewHoverCountsByRouteKey[r] = Cardinality(SessionsPreviewing(r))

\* C38: the route of every rendered vehicle marker is one of the manager's
\* selected realtime route keys.
C38_MarkersOfSelectedRoutes ==
  \A id \in DOMAIN layersByVehicleId : VehicleRoute(id) \in liveSelectedRouteKeys

\* C39: when a response is applied that reports an agency's source as error
\* or unavailable and lists no vehicle of that agency, the markers rendered
\* for that agency's vehicles stay.
C39_FeedErrorKeepsMarkers ==
  [][\A r \in polls, ids \in SUBSET VehicleIds, as \in SUBSET Agencies :
       \A vehicles \in [ids -> Positions], sources \in [as -> SourceStatuses] :
         PollSettle(r, TRUE, vehicles, sources) /\ lastPoll' = "applied" =>
           \A a \in as :
             (/\ sources[a].status \in {"error", "unavailable"}
              /\ \A id \in ids : VehicleRoute(id)[1] # a) =>
               \A id \in DOMAIN layersByVehicleId :
                 VehicleRoute(id)[1] = a => id \in DOMAIN layersByVehicleId']_vars

\* C40: an area operation in progress is not replaced by another one; the
\* flag areaSelectionInProgress always returns to false; the selection is
\* empty before the area's routes are resolved, and when applyAreaFilter
\* finishes the selected routes are the candidates that intersect the area
\* and whose geometry is loaded.
C40_AreaExclusiveAndFinishes ==
  /\ [][areaSelectionInProgress /\ areaSelectionInProgress' =>
         /\ areaWork'.kind = areaWork.kind
         /\ areaWork'.candidates = areaWork.candidates
         /\ areaWork'.hits = areaWork.hits]_vars
  /\ [](areaSelectionInProgress <=> areaWork.phase # "idle")
  /\ areaSelectionInProgress ~> ~areaSelectionInProgress
  /\ [](areaWork.phase \in {"cleared", "resolving"} => selectedRouteKeys = <<>>)
  /\ [][areaSelectionInProgress /\ ~areaSelectionInProgress' /\ areaWork.kind = "apply" =>
         Range(selectedRouteKeys') =
           {k \in Range(areaWork.candidates) :
              k \in areaWork.hits /\ routeStateByKey'[k].routeData # 0}]_vars

\* applyAreaFilter finished after the load of route 1 failed: only route 2,
\* which loaded and intersects the area, is selected
C40_Witness ==
  /\ ~areaSelectionInProgress
  /\ statusText = <<"loading">>
  /\ selectedRouteKeys = <<2>>
  /\ routeStateByKey[1].routeData = 0
  /\ fetchCount[1] > 0

====
